---- MODULE Spec2Model ----
(***************************************************************************)
(* Grading service, PDF parsers and answer-key cleanup of the interview    *)
(* backend (src/backend/services/grading.py, pdf_parser.py,                *)
(* multi_set_parser.py, src/backend/fix_answer_keys.py).                   *)
(*                                                                         *)
(* A Python str is a sequence of one-character strings.  The services have *)
(* only static methods and keep no state between calls, so the state of    *)
(* the model is one call: its arguments and its result.  A regular         *)
(* expression is modelled by the match the re module finds for it.         *)
(*                                                                         *)
(* Numbers.  Levenshtein.ratio and the keyword score are quotients of two  *)
(* small integers; they are kept as fractions in lowest terms, so that     *)
(* 2/4 and 1/2 are the same value.  score_percentage is computed by the    *)
(* code as (correct_count / total_questions) * 100 in IEEE-754 binary64,   *)
(* with a rounding after the division and another after the                *)
(* multiplication; it is modelled bit for bit (see "binary64" below).      *)
(***************************************************************************)
EXTENDS Integers, Sequences, FiniteSets, TLC

VARIABLES
    candidate,   \* the candidate_answer given to a single-answer method: a str
    correct,     \* the correct_answer given to a single-answer method: a str
    submitted,   \* grade_test's candidate_answers: a list of {question_number, answer_text}
    answer_key,  \* the answer keys, question -> correct answer: grade_test's
                 \* correct_answers, and the AnswerKey rows fix_answer_keys rewrites
    pdf_text,    \* the text extracted from the PDF given to a parser: a str
    call,        \* the method called and its configuration arguments
    ret,         \* what the call returned
    db,          \* the committed rows of the database, table by table
    foreign_keys,  \* whether the database enforces its FOREIGN KEY constraints
    requests     \* the HTTP requests: the handler, its position and its data

vars == <<candidate, correct, submitted, answer_key, pdf_text, call, ret, db,
         foreign_keys, requests>>

(***************************************************************************)
(* Bounds of the model.                                                    *)
(***************************************************************************)
\* longest candidate / correct answer text given to the single-answer methods
MaxLen == 3

\* characters the answer texts are built from: a lower-case option letter, an
\* upper-case letter that is no option letter (the two spell the stop word
\* "be" and the two keywords "b", "e"), and white space
Alphabet == {"b", "E", " "}

RECURSIVE SeqsOfLen(_)
SeqsOfLen(n) ==
    IF n = 0 THEN {<<>>}
    ELSE {Append(s, c) : s \in SeqsOfLen(n - 1), c \in Alphabet}

Texts == UNION {SeqsOfLen(n) : n \in 0..MaxLen}

(***************************************************************************)
(* Python str primitives used by grading.py.                               *)
(***************************************************************************)
\* str.lower() and str.upper() of one character: the letters of ASCII
ToLower ==
    [A |-> "a", B |-> "b", C |-> "c", D |-> "d", E |-> "e", F |-> "f", G |-> "g",
     H |-> "h", I |-> "i", J |-> "j", K |-> "k", L |-> "l", M |-> "m", N |-> "n",
     O |-> "o", P |-> "p", Q |-> "q", R |-> "r", S |-> "s", T |-> "t", U |-> "u",
     V |-> "v", W |-> "w", X |-> "x", Y |-> "y", Z |-> "z"]
ToUpper ==
    [a |-> "A", b |-> "B", c |-> "C", d |-> "D", e |-> "E", f |-> "F", g |-> "G",
     h |-> "H", i |-> "I", j |-> "J", k |-> "K", l |-> "L", m |-> "M", n |-> "N",
     o |-> "O", p |-> "P", q |-> "Q", r |-> "R", s |-> "S", t |-> "T", u |-> "U",
     v |-> "V", w |-> "W", x |-> "X", y |-> "Y", z |-> "Z"]
UpperLetters == DOMAIN ToLower
LowerLetters == DOMAIN ToUpper
Digits == {"0", "1", "2", "3", "4", "5", "6", "7", "8", "9"}

LowerChar(c) == IF c \in UpperLetters THEN ToLower[c] ELSE c
UpperChar(c) == IF c \in LowerLetters THEN ToUpper[c] ELSE c

\* str.lower(), str.upper()
lower(s) == [i \in 1..Len(s) |-> LowerChar(s[i])]
upper(s) == [i \in 1..Len(s) |-> UpperChar(s[i])]

IsSpace(c) == c \in {" ", "\t", "\n"}

\* str.strip(): leading and trailing white space removed
RECURSIVE lstrip(_)
lstrip(s) == IF s # <<>> /\ IsSpace(Head(s)) THEN lstrip(Tail(s)) ELSE s

RECURSIVE rstrip(_)
rstrip(s) ==
    IF s # <<>> /\ IsSpace(s[Len(s)]) THEN rstrip(SubSeq(s, 1, Len(s) - 1)) ELSE s

strip(s) == rstrip(lstrip(s))

\* the regular expression class \w
IsWordChar(c) == c \in UpperLetters \/ c \in LowerLetters \/ c \in Digits \/ c = "_"

\* set(re.findall(r'\w+', s)): the maximal runs of word characters of s
RECURSIVE WordRuns(_, _, _)
WordRuns(s, cur, acc) ==
    IF s = <<>> THEN (IF cur = <<>> THEN acc ELSE acc \cup {cur})
    ELSE IF IsWordChar(Head(s)) THEN WordRuns(Tail(s), Append(cur, Head(s)), acc)
    ELSE WordRuns(Tail(s), <<>>, IF cur = <<>> THEN acc ELSE acc \cup {cur})

findall_words(s) == WordRuns(s, <<>>, {})

(***************************************************************************)
(* Fractions in lowest terms.                                              *)
(***************************************************************************)
Abs(n) == IF n < 0 THEN -n ELSE n

RECURSIVE GCD(_, _)
GCD(a, b) == IF b = 0 THEN a ELSE GCD(b, a % b)

Frac(n, d) ==
    LET g == GCD(Abs(n), d) IN [num |-> n \div g, den |-> d \div g]

FracGE(x, y) == x.num * y.den >= y.num * x.den

Zero == Frac(0, 1)
One == Frac(1, 1)

(***************************************************************************)
(* Levenshtein.ratio(a, b) of the python-Levenshtein package:              *)
(* (len(a) + len(b) - d) / (len(a) + len(b)), where d is the edit distance *)
(* in which a substitution costs 2 (an insertion plus a deletion), and 1.0 *)
(* for two empty strings.                                                  *)
(***************************************************************************)
Min(a, b) == IF a <= b THEN a ELSE b

RECURSIVE IndelDistance(_, _)
IndelDistance(a, b) ==
    IF a = <<>> THEN Len(b)
    ELSE IF b = <<>> THEN Len(a)
    ELSE IF Head(a) = Head(b) THEN IndelDistance(Tail(a), Tail(b))
    ELSE 1 + Min(IndelDistance(Tail(a), b), IndelDistance(a, Tail(b)))

Levenshtein_ratio(a, b) ==
    LET lensum == Len(a) + Len(b)
    IN  IF lensum = 0 THEN One ELSE Frac(lensum - IndelDistance(a, b), lensum)

(***************************************************************************)
(* GradingService: the single-answer methods.                              *)
(***************************************************************************)
\* variant: Levenshtein.distance in the place of Levenshtein.ratio
calculate_similarity_distance(text1, text2) ==
    LET t1 == strip(lower(text1))
        t2 == strip(lower(text2))
    IN  IF t1 = <<>> \/ t2 = <<>> THEN Zero ELSE Frac(IndelDistance(t1, t2), 1)

\* variant: only the first text is normalised
calculate_similarity_one_sided(text1, text2) ==
    LET t1 == strip(lower(text1))
    IN  IF t1 = <<>> \/ text2 = <<>> THEN Zero ELSE Levenshtein_ratio(t1, text2)

calculate_similarity(text1, text2) ==
    LET t1 == strip(lower(text1))
        t2 == strip(lower(text2))
    IN  IF t1 = <<>> \/ t2 = <<>> THEN Zero ELSE Levenshtein_ratio(t1, t2)

exact_match(candidate_answer, correct_answer, case_sensitive) ==
    IF ~case_sensitive
    THEN strip(lower(candidate_answer)) = strip(lower(correct_answer))
    ELSE strip(candidate_answer) = strip(correct_answer)

\* the tuple (is_match, similarity) that fuzzy_match returns, by its names
fuzzy_match(candidate_answer, correct_answer, threshold) ==
    LET similarity == calculate_similarity(candidate_answer, correct_answer)
    IN  [is_match |-> FracGE(similarity, threshold), similarity |-> similarity]

stop_words ==
    { <<"t", "h", "e">>, <<"a">>, <<"a", "n">>, <<"a", "n", "d">>, <<"o", "r">>,
      <<"b", "u", "t">>, <<"i", "n">>, <<"o", "n">>, <<"a", "t">>, <<"t", "o">>,
      <<"f", "o", "r">>, <<"i", "s">>, <<"a", "r", "e">>, <<"w", "a", "s">>,
      <<"w", "e", "r", "e">>, <<"b", "e">>, <<"b", "e", "e", "n">> }

\* variant: the stop words are left among the correct answer's words
keyword_match_keep_stop_words(candidate_answer, correct_answer, threshold) ==
    LET correct_words == findall_words(lower(correct_answer))
        candidate_words == findall_words(lower(candidate_answer))
        matched_keywords == correct_words \cap candidate_words
        match_percentage == Frac(Cardinality(matched_keywords), Cardinality(correct_words))
    IN  IF correct_words = {} THEN [is_match |-> FALSE, match_percentage |-> Zero]
        ELSE [is_match |-> FracGE(match_percentage, threshold),
              match_percentage |-> match_percentage]

\* the tuple (is_match, match_percentage) that keyword_match returns, by its names
keyword_match(candidate_answer, correct_answer, threshold) ==
    LET correct_words == findall_words(lower(correct_answer)) \ stop_words
        candidate_words == findall_words(lower(candidate_answer))
        matched_keywords == correct_words \cap candidate_words
        match_percentage == Frac(Cardinality(matched_keywords), Cardinality(correct_words))
    IN  IF correct_words = {} THEN [is_match |-> FALSE, match_percentage |-> Zero]
        ELSE [is_match |-> FracGE(match_percentage, threshold),
              match_percentage |-> match_percentage]

OptionLetters == {<<"A">>, <<"B">>, <<"C">>, <<"D">>}

\* 1.0 if is_correct else 0.0
Score(is_correct) == IF is_correct THEN One ELSE Zero

\* len(correct_stripped) == 1 and correct_stripped in 'ABCD'
IsMCQ(correct_stripped) == Len(correct_stripped) = 1 /\ correct_stripped \in OptionLetters

\* the multiple-choice branch of grade_answer
mcq_result(candidate_stripped, correct_stripped) ==
    [is_correct |-> candidate_stripped = correct_stripped,
     similarity_score |-> Score(candidate_stripped = correct_stripped)]

\* variant: a method the code does not know is graded as exact
text_result_default_exact(candidate_answer, correct_answer, method, threshold) ==
    LET fuzzy == fuzzy_match(candidate_answer, correct_answer, threshold)
        keyword == keyword_match(candidate_answer, correct_answer, threshold)
        exact == exact_match(candidate_answer, correct_answer, FALSE)
    IN  IF method = "fuzzy"
        THEN [is_correct |-> fuzzy.is_match, similarity_score |-> fuzzy.similarity]
        ELSE IF method = "keyword"
        THEN [is_correct |-> keyword.is_match, similarity_score |-> keyword.match_percentage]
        ELSE [is_correct |-> exact, similarity_score |-> Score(exact)]

\* the dispatch of grade_answer on method, for an answer that is no option letter
text_result(candidate_answer, correct_answer, method, threshold) ==
    LET fuzzy == fuzzy_match(candidate_answer, correct_answer, threshold)
        keyword == keyword_match(candidate_answer, correct_answer, threshold)
        exact == exact_match(candidate_answer, correct_answer, FALSE)
    IN  IF method = "exact"
        THEN [is_correct |-> exact, similarity_score |-> Score(exact)]
        ELSE IF method = "fuzzy"
        THEN [is_correct |-> fuzzy.is_match, similarity_score |-> fuzzy.similarity]
        ELSE IF method = "keyword"
        THEN [is_correct |-> keyword.is_match, similarity_score |-> keyword.match_percentage]
        ELSE [is_correct |-> fuzzy.is_match, similarity_score |-> fuzzy.similarity]

\* variant: the option-letter rule is applied to the exact method only
grade_answer_mcq_when_exact(candidate_answer, correct_answer, method, threshold) ==
    LET correct_stripped == upper(strip(correct_answer))
        candidate_stripped == upper(strip(candidate_answer))
    IN  IF IsMCQ(correct_stripped) /\ method = "exact"
        THEN mcq_result(candidate_stripped, correct_stripped)
        ELSE text_result(candidate_answer, correct_answer, method, threshold)

\* variant: the candidate's option letter is compared as typed (no upper())
grade_answer_case_sensitive(candidate_answer, correct_answer, method, threshold) ==
    LET correct_stripped == upper(strip(correct_answer))
        candidate_stripped == strip(candidate_answer)
    IN  IF IsMCQ(correct_stripped)
        THEN mcq_result(candidate_stripped, correct_stripped)
        ELSE text_result(candidate_answer, correct_answer, method, threshold)

grade_answer(candidate_answer, correct_answer, method, threshold) ==
    LET correct_stripped == upper(strip(correct_answer))
        candidate_stripped == upper(strip(candidate_answer))
    IN  IF IsMCQ(correct_stripped)
        THEN mcq_result(candidate_stripped, correct_stripped)
        ELSE text_result(candidate_answer, correct_answer, method, threshold)

(***************************************************************************)
(* binary64.  A finite non-negative Python float is 0 (man = <<>>) or      *)
(* [exp, man], where man holds the 53 bits of the significand: the leading *)
(* bit (always 1) followed by four digits of 13 bits each, most            *)
(* significant first.  Its value is man * 2^(exp - 52).  Every operation   *)
(* rounds to nearest, ties to even, as CPython's float does.               *)
(***************************************************************************)
MantissaBits == 53
DigitBase == 2^13
NumDigits == (MantissaBits - 1) \div 13

DoubleZero == [exp |-> 0, man |-> <<>>]

\* n / d scaled by powers of two until 1 <= n / d < 2
RECURSIVE Normalise(_, _, _)
Normalise(n, d, e) ==
    IF n >= 2 * d THEN Normalise(n, 2 * d, e + 1)
    ELSE IF n < d THEN Normalise(2 * n, d, e - 1)
    ELSE [n |-> n, d |-> d, e |-> e]

\* long division: k more digits of r / d after the digits acc
RECURSIVE DivDigits(_, _, _, _)
DivDigits(r, d, k, acc) ==
    IF k = 0 THEN [man |-> acc, rem |-> r]
    ELSE DivDigits((r * DigitBase) % d, d, k - 1, Append(acc, (r * DigitBase) \div d))

\* one added in the last place of a significand that is not all ones
RECURSIVE Increment(_)
Increment(man) ==
    LET n == Len(man)
    IN  IF man[n] < DigitBase - 1 THEN [man EXCEPT ![n] = @ + 1]
        ELSE Append(Increment(SubSeq(man, 1, n - 1)), 0)

AllOnes(man) == \A i \in 2..Len(man) : man[i] = DigitBase - 1

\* the significand, one added in the last place when up
Rounded(man, e, up) ==
    IF ~up THEN [exp |-> e, man |-> man]
    ELSE IF AllOnes(man)
    THEN [exp |-> e + 1, man |-> <<1>> \o [i \in 1..NumDigits |-> 0]]
    ELSE [exp |-> e, man |-> Increment(man)]

IsOdd(man) == man[Len(man)] % 2 = 1

\* float(n) / float(d) for integers n >= 0, d > 0
fl_div(n, d) ==
    IF n = 0 THEN DoubleZero
    ELSE LET s == Normalise(n, d, 0)
             q == DivDigits(s.n - s.d, s.d, NumDigits, <<1>>)
             up == \/ 2 * q.rem > s.d
                   \/ 2 * q.rem = s.d /\ IsOdd(q.man)
         IN  Rounded(q.man, s.e, up)

\* float(n) for an integer n >= 0
float(n) == fl_div(n, 1)

\* the digits of man * k for a small integer k > 0; the leading one is not
\* reduced and holds the bits above the 52 low ones
RECURSIVE MulDigits(_, _, _, _, _)
MulDigits(man, k, i, carry, acc) ==
    LET v == man[i] * k + carry
    IN  IF i = 1 THEN <<v>> \o acc
        ELSE MulDigits(man, k, i - 1, v \div DigitBase, <<v % DigitBase>> \o acc)

\* the largest s with 2^s <= n
RECURSIVE Log2(_)
Log2(n) == IF n < 2 THEN 0 ELSE 1 + Log2(n \div 2)

\* digits shifted right by s bits: the digits kept and the bits shifted out
RECURSIVE ShiftRight(_, _, _, _, _)
ShiftRight(digits, s, i, rem, acc) ==
    IF i > Len(digits) THEN [man |-> acc, rem |-> rem]
    ELSE LET v == rem * (IF i = 1 THEN 1 ELSE DigitBase) + digits[i]
         IN  ShiftRight(digits, s, i + 1, v % (2^s), Append(acc, v \div (2^s)))

\* x * float(k) for an integer k > 0
fl_mul(x, k) ==
    IF x.man = <<>> THEN DoubleZero
    ELSE LET p == MulDigits(x.man, k, Len(x.man), 0, <<>>)
             s == Log2(p[1])
             q == ShiftRight(p, s, 1, 0, <<>>)
             half == IF s = 0 THEN 1 ELSE 2^(s - 1)
             up == /\ s > 0
                   /\ \/ q.rem > half
                      \/ q.rem = half /\ IsOdd(q.man)
         IN  Rounded(q.man, x.exp + s, up)

DoubleLT(x, y) ==
    IF y.man = <<>> THEN FALSE
    ELSE IF x.man = <<>> THEN TRUE
    ELSE \/ x.exp < y.exp
         \/ /\ x.exp = y.exp
            /\ \E i \in 1..Len(x.man) :
                  /\ x.man[i] < y.man[i]
                  /\ \A j \in 1..(i - 1) : x.man[j] = y.man[j]

DoubleGE(x, y) == ~DoubleLT(x, y)

(***************************************************************************)
(* GradingService.grade_test.                                              *)
(***************************************************************************)
\* variant: an answer to a question without a key ends the loop (break for continue)
RECURSIVE GradeLoop_break(_, _, _, _, _, _)
GradeLoop_break(answers, correct_answers, method, threshold, correct_count, graded_answers) ==
    IF answers = <<>> \/ Head(answers).question_number \notin DOMAIN correct_answers
    THEN [correct_count |-> correct_count, graded_answers |-> graded_answers]
    ELSE LET answer_data == Head(answers)
             correct_ans == correct_answers[answer_data.question_number]
             result == grade_answer(answer_data.answer_text, correct_ans, method, threshold)
         IN  GradeLoop_break(Tail(answers), correct_answers, method, threshold,
                             IF result.is_correct THEN correct_count + 1 ELSE correct_count,
                             Append(graded_answers,
                                    [question_number |-> answer_data.question_number,
                                     candidate_answer |-> answer_data.answer_text,
                                     correct_answer |-> correct_ans,
                                     is_correct |-> result.is_correct,
                                     similarity_score |-> result.similarity_score]))

\* the loop over candidate_answers: the count of correct answers and the graded list
RECURSIVE GradeLoop(_, _, _, _, _, _)
GradeLoop(answers, correct_answers, method, threshold, correct_count, graded_answers) ==
    IF answers = <<>>
    THEN [correct_count |-> correct_count, graded_answers |-> graded_answers]
    ELSE LET answer_data == Head(answers)
             question_num == answer_data.question_number
             candidate_ans == answer_data.answer_text
         IN  IF question_num \notin DOMAIN correct_answers
             THEN GradeLoop(Tail(answers), correct_answers, method, threshold,
                            correct_count, graded_answers)
             ELSE LET correct_ans == correct_answers[question_num]
                      result == grade_answer(candidate_ans, correct_ans, method, threshold)
                  IN  GradeLoop(Tail(answers), correct_answers, method, threshold,
                                IF result.is_correct THEN correct_count + 1 ELSE correct_count,
                                Append(graded_answers,
                                       [question_number |-> question_num,
                                        candidate_answer |-> candidate_ans,
                                        correct_answer |-> correct_ans,
                                        is_correct |-> result.is_correct,
                                        similarity_score |-> result.similarity_score]))

\* (correct_count / total_questions * 100) if total_questions > 0 else 0
ScorePercentage(correct_count, total_questions) ==
    IF total_questions > 0
    THEN fl_mul(fl_div(correct_count, total_questions), 100)
    ELSE DoubleZero

\* variant: the pass mark itself does not pass (> for >=)
Passed_strict(score_percentage, passing_percentage) ==
    DoubleLT(float(passing_percentage), score_percentage)

\* score_percentage >= passing_percentage
Passed(score_percentage, passing_percentage) ==
    DoubleGE(score_percentage, float(passing_percentage))

TotalQuestions(correct_answers) == Cardinality(DOMAIN correct_answers)

grade_test(candidate_answers, correct_answers, method, threshold, passing_percentage) ==
    LET total_questions == TotalQuestions(correct_answers)
        loop == GradeLoop(candidate_answers, correct_answers, method, threshold, 0, <<>>)
        score_percentage == ScorePercentage(loop.correct_count, total_questions)
    IN  [total_questions |-> total_questions,
         correct_answers |-> loop.correct_count,
         score_percentage |-> score_percentage,
         passed |-> Passed(score_percentage, passing_percentage),
         graded_answers |-> loop.graded_answers]

(***************************************************************************)
(* Python str and re primitives used by the parsers                        *)
(* (src/backend/services/pdf_parser.py, multi_set_parser.py).  An index is *)
(* 1-based; the "end" of a match is the index of the character after it.   *)
(***************************************************************************)
\* the white space \s (and str.strip) finds in the texts of the model
WhiteSpace == {" ", "\t", "\n"}

\* the punctuation class [\.\:\)]
NumberPunctuation == {".", ":", ")"}

\* the option letters of the class [A-D]
OptionChars == {"A", "B", "C", "D"}

\* the prefixes (?:Q(?:uestion)?\s*)? and (?:A(?:nswer)?\s*)? are a first
\* letter and, optionally, the rest of the word
Question == <<"Q", "u", "e", "s", "t", "i", "o", "n">>
Answer == <<"A", "n", "s", "w", "e", "r">>
SET == <<"S", "E", "T">>

\* int() of a run of decimal digits
DigitValue ==
    [c \in Digits |->
        CASE c = "0" -> 0 [] c = "1" -> 1 [] c = "2" -> 2 [] c = "3" -> 3
          [] c = "4" -> 4 [] c = "5" -> 5 [] c = "6" -> 6 [] c = "7" -> 7
          [] c = "8" -> 8 [] c = "9" -> 9]

RECURSIVE int(_)
int(d) ==
    IF d = <<>> THEN 0
    ELSE 10 * int(SubSeq(d, 1, Len(d) - 1)) + DigitValue[d[Len(d)]]

\* str.split(sep) with a separator of one character
RECURSIVE SplitFrom(_, _, _, _)
SplitFrom(s, sep, cur, acc) ==
    IF s = <<>> THEN Append(acc, cur)
    ELSE IF Head(s) = sep THEN SplitFrom(Tail(s), sep, <<>>, Append(acc, cur))
    ELSE SplitFrom(Tail(s), sep, Append(cur, Head(s)), acc)

split(s, sep) == SplitFrom(s, sep, <<>>, <<>>)

\* sep.join(parts)
RECURSIVE join(_, _)
join(sep, parts) ==
    IF parts = <<>> THEN <<>>
    ELSE IF Len(parts) = 1 THEN parts[1]
    ELSE parts[1] \o sep \o join(sep, Tail(parts))

\* sub in s
Contains(s, sub) ==
    \E i \in 1..(Len(s) - Len(sub) + 1) : SubSeq(s, i, i + Len(sub) - 1) = sub

\* s has w at index i
StartsAt(s, i, w) == i + Len(w) - 1 <= Len(s) /\ SubSeq(s, i, i + Len(w) - 1) = w

\* a greedy class repetition ([class]*) from index i: the index after the run
RECURSIVE RunEnd(_, _, _)
RunEnd(s, i, class) ==
    IF i <= Len(s) /\ s[i] \in class THEN RunEnd(s, i + 1, class) ELSE i

\* \s* followed by a group that needs one character (.+ or .+?): the group
\* starts after the white space run from index e, or, when the run reaches the
\* end of s, on its last character, which \s* gives back; 0 when no character
\* is left for the group
GroupStart(s, e) ==
    LET w == RunEnd(s, e, WhiteSpace)
    IN  IF w <= Len(s) THEN w
        ELSE IF w - 1 >= e THEN w - 1
        ELSE 0

\* re.sub(r'\s+', ' ', s): every run of white space becomes one blank
RECURSIVE CollapseSpace(_, _, _)
CollapseSpace(s, i, acc) ==
    IF i > Len(s) THEN acc
    ELSE IF s[i] \in WhiteSpace
         THEN CollapseSpace(s, RunEnd(s, i, WhiteSpace), Append(acc, " "))
         ELSE CollapseSpace(s, i + 1, Append(acc, s[i]))

\* (?:W(?:ord)?\s*)?(\d+)[\.\:\)] tried at index i, for word = Question or Answer
NumberedHead(s, i, word) ==
    LET digits == IF StartsAt(s, i, word) THEN RunEnd(s, i + Len(word), WhiteSpace)
                  ELSE IF StartsAt(s, i, <<word[1]>>) THEN RunEnd(s, i + 1, WhiteSpace)
                  ELSE i
        punct == RunEnd(s, digits, Digits)
    IN  [ok |-> punct > digits /\ punct <= Len(s) /\ s[punct] \in NumberPunctuation,
         number |-> SubSeq(s, digits, punct - 1),
         end |-> punct + 1]

\* ^ under re.MULTILINE
AtLineStart(s, p) == p = 1 \/ s[p - 1] = "\n"

\* the lookahead (?=(?:\n(?:W(?:ord)?\s*)?\d+[\.\:\)]|\Z)) at index k
NumberedAhead(s, k, word) ==
    k = Len(s) + 1 \/ (s[k] = "\n" /\ NumberedHead(s, k + 1, word).ok)

\* the end of the lazy group (.+?) that has reached index k
RECURSIVE LazyEnd(_, _, _)
LazyEnd(s, k, word) ==
    IF NumberedAhead(s, k, word) THEN k ELSE LazyEnd(s, k + 1, word)

NoMatch == [ok |-> FALSE]

\* <head>\s*(.+?)<lookahead> with the head tried at index h (re.DOTALL)
NumberedBody(s, h, word) ==
    LET head == NumberedHead(s, h, word)
        start == GroupStart(s, head.end)
    IN  IF head.ok /\ start > 0
        THEN LET end == LazyEnd(s, start + 1, word)
             IN  [ok |-> TRUE, groups |-> <<head.number, SubSeq(s, start, end - 1)>>,
                  end |-> end]
        ELSE NoMatch

\* the numbered pattern (grading of questions: line 86, of answers: line 232)
\* tried at index p: (?:^|\n) takes the line start first, then a newline
NumberedMatchAt(s, p, word) ==
    IF AtLineStart(s, p) /\ NumberedBody(s, p, word).ok THEN NumberedBody(s, p, word)
    ELSE IF s[p] = "\n" THEN NumberedBody(s, p + 1, word)
    ELSE NoMatch

\* re.findall of the numbered pattern: the (number, text) groups of the
\* successive leftmost matches
RECURSIVE NumberedFindall(_, _, _, _)
NumberedFindall(s, p, word, acc) ==
    IF p > Len(s) THEN acc
    ELSE LET m == NumberedMatchAt(s, p, word)
         IN  IF m.ok THEN NumberedFindall(s, m.end, word, Append(acc, m.groups))
             ELSE NumberedFindall(s, p + 1, word, acc)

\* re.match(r'^(?:W(?:ord)?\s*)?(\d+)[\.\:\)]\s*(.+)', line)
NumberedLine(line, word) ==
    LET head == NumberedHead(line, 1, word)
        start == GroupStart(line, head.end)
    IN  IF head.ok /\ start > 0
        THEN [ok |-> TRUE, groups |-> <<head.number, SubSeq(line, start, Len(line))>>]
        ELSE NoMatch

(***************************************************************************)
(* PDFParser.parse_questions.                                              *)
(***************************************************************************)
\* Q\d at index i
QDigitAt(s, i) == i + 1 <= Len(s) /\ s[i] = "Q" /\ s[i + 1] \in Digits

\* the lookahead (?=Q\d+|\Z) first holds at or after index i
RECURSIVE NextBlock(_, _)
NextBlock(s, i) ==
    IF i > Len(s) \/ QDigitAt(s, i) THEN i ELSE NextBlock(s, i + 1)

\* re.findall(r'Q(\d+)\s*\n?(.*?)(?=Q\d+|\Z)', text, re.DOTALL)
RECURSIVE BlockFindall(_, _, _)
BlockFindall(s, p, acc) ==
    LET q == NextBlock(s, p)
    IN  IF q > Len(s) THEN acc
        ELSE LET digitsEnd == RunEnd(s, q + 1, Digits)
                 blockStart == RunEnd(s, digitsEnd, WhiteSpace)
                 blockEnd == NextBlock(s, blockStart)
             IN  BlockFindall(s, blockEnd,
                              Append(acc, <<SubSeq(s, q + 1, digitsEnd - 1),
                                            SubSeq(s, blockStart, blockEnd - 1)>>))

\* re.match(r'^([A-D])\.\s*(.+)', line)
OptionLine(line) ==
    LET start == GroupStart(line, 3)
    IN  IF Len(line) >= 2 /\ line[1] \in OptionChars /\ line[2] = "." /\ start > 0
        THEN [ok |-> TRUE, groups |-> <<<<line[1]>>, SubSeq(line, start, Len(line))>>]
        ELSE NoMatch

\* the loop over the lines of a question block (lines 50-70); current_option
\* is <<>> for None (it is only tested for truth)
RECURSIVE BlockLines(_, _, _, _)
BlockLines(lines, question_text, options, current_option) ==
    IF lines = <<>>
    THEN [question_text |-> question_text,
          options |-> IF current_option # <<>> THEN Append(options, current_option)
                      ELSE options]
    ELSE LET line == strip(Head(lines))
             option_match == OptionLine(line)
         IN  IF line = <<>>
             THEN BlockLines(Tail(lines), question_text, options, current_option)
             ELSE IF option_match.ok
             THEN BlockLines(Tail(lines), question_text,
                             IF current_option # <<>> THEN Append(options, current_option)
                             ELSE options,
                             option_match.groups[1] \o <<".", " ">> \o option_match.groups[2])
             ELSE IF current_option # <<>>
             THEN BlockLines(Tail(lines), question_text, options,
                             current_option \o <<" ">> \o line)
             ELSE BlockLines(Tail(lines), Append(question_text, line), options,
                             current_option)

\* variant: the lines of the question are joined by newlines like the options
FullQuestion_stem_newlines(question_block) ==
    LET parsed == BlockLines(split(question_block, "\n"), <<>>, <<>>, <<>>)
    IN  join(<<"\n">>, parsed.question_text)
        \o (IF parsed.options # <<>> THEN <<"\n">> \o join(<<"\n">>, parsed.options)
            ELSE <<>>)

\* the text of a question block: the question, then its options one a line
FullQuestion(question_block) ==
    LET parsed == BlockLines(split(question_block, "\n"), <<>>, <<>>, <<>>)
    IN  join(<<" ">>, parsed.question_text)
        \o (IF parsed.options # <<>> THEN <<"\n">> \o join(<<"\n">>, parsed.options)
            ELSE <<>>)

\* the loop over the block matches (lines 39-81)
RECURSIVE BlockQuestions(_, _)
BlockQuestions(matches, questions) ==
    IF matches = <<>> THEN questions
    ELSE LET full_question == FullQuestion(strip(Head(matches)[2]))
         IN  BlockQuestions(Tail(matches),
                            IF full_question # <<>>
                            THEN Append(questions,
                                        [question_number |-> int(Head(matches)[1]),
                                         question_text |-> strip(full_question)])
                            ELSE questions)

\* the loop over the numbered matches (lines 89-97)
RECURSIVE NumberedQuestions(_, _)
NumberedQuestions(matches, questions) ==
    IF matches = <<>> THEN questions
    ELSE NumberedQuestions(Tail(matches),
                           Append(questions,
                                  [question_number |-> int(Head(matches)[1]),
                                   question_text |->
                                       CollapseSpace(strip(Head(matches)[2]), 1, <<>>)]))

\* current_question and current_number: a question is saved when it has been
\* started, is not '' and its number is not 0
Truthy(started, current, current_number) ==
    started /\ current # <<>> /\ current_number # 0

\* the loop of _parse_questions_line_by_line; started is
\* "current_question is not None"
RECURSIVE QuestionLines(_, _, _, _, _)
QuestionLines(lines, questions, started, current_question, current_number) ==
    LET saved == IF Truthy(started, current_question, current_number)
                 THEN Append(questions, [question_number |-> current_number,
                                         question_text |-> strip(current_question)])
                 ELSE questions
    IN  IF lines = <<>> THEN saved
        ELSE LET line == strip(Head(lines))
                 match == NumberedLine(line, Question)
             IN  IF line = <<>>
                 THEN QuestionLines(Tail(lines), questions, started, current_question,
                                    current_number)
                 ELSE IF match.ok
                 THEN QuestionLines(Tail(lines), saved, TRUE, match.groups[2],
                                    int(match.groups[1]))
                 ELSE IF started
                 THEN QuestionLines(Tail(lines), questions, started,
                                    current_question \o <<" ">> \o line, current_number)
                 ELSE QuestionLines(Tail(lines), questions, started, current_question,
                                    current_number)

parse_questions_line_by_line(text) ==
    QuestionLines(split(text, "\n"), <<>>, FALSE, <<>>, 0)

\* the three strategies of parse_questions, each on its own
BlockStrategy(text) == BlockQuestions(BlockFindall(text, 1, <<>>), <<>>)
NumberedStrategy(text) == NumberedQuestions(NumberedFindall(text, 1, Question, <<>>), <<>>)

parse_questions(text) ==
    LET matches == BlockFindall(text, 1, <<>>)
    IN  IF matches # <<>> THEN BlockQuestions(matches, <<>>)
        ELSE LET questions ==
                     NumberedQuestions(NumberedFindall(text, 1, Question, <<>>), <<>>)
             IN  IF questions = <<>> THEN parse_questions_line_by_line(text)
                 ELSE questions

(***************************************************************************)
(* PDFParser.parse_answers.  A dict is a function; a strategy first yields *)
(* its captures, the (question number, answer) pairs in the order the code *)
(* assigns them, and the assignments answers[number] = answer are made in  *)
(* that order.                                                             *)
(***************************************************************************)
\* answers[number] = answer
Assign(answers, number, answer) ==
    [n \in DOMAIN answers \cup {number} |-> IF n = number THEN answer ELSE answers[n]]

\* variant: a number that has an answer keeps it (setdefault for assignment)
RECURSIVE AssignAll_keep_first(_, _)
AssignAll_keep_first(answers, captures) ==
    IF captures = <<>> THEN answers
    ELSE AssignAll_keep_first(IF Head(captures)[1] \in DOMAIN answers THEN answers
                              ELSE Assign(answers, Head(captures)[1], Head(captures)[2]),
                              Tail(captures))

\* the assignments of a strategy's captures, in order
RECURSIVE AssignAll(_, _)
AssignAll(answers, captures) ==
    IF captures = <<>> THEN answers
    ELSE AssignAll(Assign(answers, Head(captures)[1], Head(captures)[2]), Tail(captures))

\* re.match(r'^[Qq](\d+)[\s\t]+(.+)', stripped)
InlineLine(stripped) ==
    LET digitsEnd == RunEnd(stripped, 2, Digits)
        spaceEnd == RunEnd(stripped, digitsEnd, WhiteSpace)
        \* [\s\t]+ keeps one character at least and leaves one to (.+)
        start == IF spaceEnd <= Len(stripped) THEN spaceEnd ELSE spaceEnd - 1
    IN  IF /\ stripped # <<>>
           /\ stripped[1] \in {"Q", "q"}
           /\ digitsEnd > 2
           /\ spaceEnd > digitsEnd
           /\ start > digitsEnd
        THEN [ok |-> TRUE,
              groups |-> <<SubSeq(stripped, 2, digitsEnd - 1),
                           SubSeq(stripped, start, Len(stripped))>>]
        ELSE NoMatch

\* strategy 1 (lines 166-178): Q<number> and the answer on one line
RECURSIVE InlineTable(_, _)
InlineTable(lines, captures) ==
    IF lines = <<>> THEN captures
    ELSE LET stripped == strip(Head(lines))
             match == InlineLine(stripped)
         IN  IF stripped = <<>> \/ Contains(stripped, Question) \/ Contains(stripped, SET)
             THEN InlineTable(Tail(lines), captures)
             ELSE IF match.ok /\ strip(match.groups[2]) # <<>>
             THEN InlineTable(Tail(lines),
                              Append(captures, <<int(match.groups[1]), strip(match.groups[2])>>))
             ELSE InlineTable(Tail(lines), captures)

\* re.match(r'^Q(\d+)$', line), for a line without a newline
QNumberLine(line) ==
    Len(line) >= 2 /\ line[1] = "Q" /\ RunEnd(line, 2, Digits) = Len(line) + 1

\* variant: the next line is taken as the answer also when it is Q<number>
RECURSIVE SplitLineTable_header_as_answer(_, _, _)
SplitLineTable_header_as_answer(lines, i, captures) ==
    IF i > Len(lines) THEN captures
    ELSE LET line == strip(lines[i])
             next_line == strip(lines[i + 1])
         IN  IF /\ QNumberLine(line)
                /\ i + 1 <= Len(lines)
                /\ next_line # <<>>
             THEN SplitLineTable_header_as_answer(lines, i + 1,
                                 Append(captures, <<int(Tail(line)), next_line>>))
             ELSE SplitLineTable_header_as_answer(lines, i + 1, captures)

\* strategy 2 (lines 188-208): Q<number> on one line, the answer on the next
RECURSIVE SplitLineTable(_, _, _)
SplitLineTable(lines, i, captures) ==
    IF i > Len(lines) THEN captures
    ELSE LET line == strip(lines[i])
             next_line == strip(lines[i + 1])
         IN  IF /\ QNumberLine(line)
                /\ i + 1 <= Len(lines)
                /\ next_line # <<>>
                /\ ~QNumberLine(next_line)
             THEN SplitLineTable(lines, i + 1,
                                 Append(captures, <<int(Tail(line)), next_line>>))
             ELSE SplitLineTable(lines, i + 1, captures)

\* \b after the word character at index i
WordEndsAt(s, i) == i = Len(s) \/ ~IsWordChar(s[i + 1])

\* <head>\s*([A-D])\b with the head tried at index h
OptionBody(s, h) ==
    LET head == NumberedHead(s, h, Question)
        letter == RunEnd(s, head.end, WhiteSpace)
    IN  IF /\ head.ok
           /\ letter <= Len(s)
           /\ s[letter] \in OptionChars
           /\ WordEndsAt(s, letter)
        THEN [ok |-> TRUE, groups |-> <<head.number, <<s[letter]>>>>, end |-> letter + 1]
        ELSE NoMatch

OptionMatchAt(s, p) ==
    IF AtLineStart(s, p) /\ OptionBody(s, p).ok THEN OptionBody(s, p)
    ELSE IF s[p] = "\n" THEN OptionBody(s, p + 1)
    ELSE NoMatch

\* re.findall(r'(?:^|\n)(?:Q(?:uestion)?\s*)?(\d+)[\.\:\)]\s*([A-D])\b', text, re.MULTILINE)
RECURSIVE OptionFindall(_, _, _)
OptionFindall(s, p, acc) ==
    IF p > Len(s) THEN acc
    ELSE LET m == OptionMatchAt(s, p)
         IN  IF m.ok THEN OptionFindall(s, m.end, Append(acc, m.groups))
             ELSE OptionFindall(s, p + 1, acc)

\* strategy 3 (lines 221-228): a number and an option letter
RECURSIVE OptionLetterOnly(_, _)
OptionLetterOnly(matches, captures) ==
    IF matches = <<>> THEN captures
    ELSE OptionLetterOnly(Tail(matches),
                          Append(captures, <<int(Head(matches)[1]), Head(matches)[2]>>))

\* strategy 4 (lines 232-239): a number and the text up to the next number
RECURSIVE FullText(_, _)
FullText(matches, captures) ==
    IF matches = <<>> THEN captures
    ELSE FullText(Tail(matches),
                  Append(captures, <<int(Head(matches)[1]),
                                     CollapseSpace(strip(Head(matches)[2]), 1, <<>>)>>))

\* strategy 5, the loop of _parse_answers_line_by_line; started is
\* "current_answer is not None"
RECURSIVE AnswerLines(_, _, _, _, _)
AnswerLines(lines, captures, started, current_answer, current_number) ==
    LET saved == IF Truthy(started, current_answer, current_number)
                 THEN Append(captures, <<current_number, strip(current_answer)>>)
                 ELSE captures
    IN  IF lines = <<>> THEN saved
        ELSE LET line == strip(Head(lines))
                 match == NumberedLine(line, Answer)
             IN  IF line = <<>>
                 THEN AnswerLines(Tail(lines), captures, started, current_answer,
                                  current_number)
                 ELSE IF match.ok
                 THEN AnswerLines(Tail(lines), saved, TRUE, match.groups[2],
                                  int(match.groups[1]))
                 ELSE IF started
                 THEN AnswerLines(Tail(lines), captures, started,
                                  current_answer \o <<" ">> \o line, current_number)
                 ELSE AnswerLines(Tail(lines), captures, started, current_answer,
                                  current_number)

\* the captures of each strategy of parse_answers, in the order of the code
InlineCaptures(text) == InlineTable(split(text, "\n"), <<>>)
SplitLineCaptures(text) == SplitLineTable(split(text, "\n"), 1, <<>>)
OptionLetterCaptures(text) == OptionLetterOnly(OptionFindall(text, 1, <<>>), <<>>)
FullTextCaptures(text) == FullText(NumberedFindall(text, 1, Answer, <<>>), <<>>)
LineByLineCaptures(text) == AnswerLines(split(text, "\n"), <<>>, FALSE, <<>>, 0)

parse_answers_line_by_line(text) == AssignAll(<<>>, LineByLineCaptures(text))

\* variant: the full-text strategy is tried before the option-letter strategy
parse_answers_full_text_first(text) ==
    LET inline == AssignAll(<<>>, InlineCaptures(text))
    IN  IF inline # <<>> THEN inline
        ELSE LET table == AssignAll(inline, SplitLineCaptures(text))
                 answers == AssignAll(table, FullTextCaptures(text))
                 matches == OptionFindall(text, 1, <<>>)
             IN  IF table # <<>> THEN table
                 ELSE IF answers # <<>> THEN answers
                 ELSE IF matches # <<>>
                 THEN AssignAll(table, OptionLetterOnly(matches, <<>>))
                 ELSE parse_answers_line_by_line(text)

parse_answers(text) ==
    LET inline == AssignAll(<<>>, InlineCaptures(text))
    IN  IF inline # <<>> THEN inline
        ELSE LET table == AssignAll(inline, SplitLineCaptures(text))
                 matches == OptionFindall(text, 1, <<>>)
             IN  IF table # <<>> THEN table
                 ELSE IF matches # <<>>
                 THEN AssignAll(table, OptionLetterOnly(matches, <<>>))
                 ELSE LET answers == AssignAll(table, FullTextCaptures(text))
                      IN  IF answers = <<>> THEN parse_answers_line_by_line(text)
                          ELSE answers

(***************************************************************************)
(* MultiSetAnswerParser.parse_multi_set_answers                            *)
(* (src/backend/services/multi_set_parser.py).                             *)
(***************************************************************************)
\* the keys of results, in the order the dict is created and iterated
SetNames == <<"SET A", "SET B", "SET C">>

\* the markers of a set on a header line: 'SET X' and 'SETX'
Marked(upper_line, letter) ==
    \/ Contains(upper_line, SET \o <<" ", letter>>)
    \/ Contains(upper_line, SET \o <<letter>>)

\* variant: the markers of the three sets may stand on different lines
header_found_across_lines(lines) ==
    \A letter \in {"A", "B", "C"} :
        \E i \in 1..Len(lines) : Marked(upper(lines[i]), letter)

\* the header test of lines 51-58
header_found(lines) ==
    \E i \in 1..Len(lines) :
        LET upper_line == upper(lines[i])
        IN  Marked(upper_line, "A") /\ Marked(upper_line, "B") /\ Marked(upper_line, "C")

\* re.match(r'^[Qq]?[0]*(\d+)', stripped): [0]* takes the zeros and gives the
\* last one back when no other digit follows
QuestionNumber(stripped) ==
    LET first == IF stripped # <<>> /\ stripped[1] \in {"Q", "q"} THEN 2 ELSE 1
        zerosEnd == RunEnd(stripped, first, {"0"})
        digitsEnd == RunEnd(stripped, zerosEnd, Digits)
    IN  IF digitsEnd > zerosEnd
        THEN [ok |-> TRUE, groups |-> <<SubSeq(stripped, zerosEnd, digitsEnd - 1)>>]
        ELSE IF zerosEnd > first THEN [ok |-> TRUE, groups |-> <<<<"0">>>>]
        ELSE NoMatch

\* re.split(r'\s{2,}', line)
RECURSIVE SplitWide(_, _, _, _)
SplitWide(s, i, cur, acc) ==
    IF i > Len(s) THEN Append(acc, cur)
    ELSE IF s[i] \in WhiteSpace /\ RunEnd(s, i, WhiteSpace) - i >= 2
         THEN SplitWide(s, RunEnd(s, i, WhiteSpace), <<>>, Append(acc, cur))
         ELSE SplitWide(s, i + 1, Append(cur, s[i]), acc)

\* [p.strip() for p in pieces if p.strip()]
RECURSIVE StrippedNonEmpty(_)
StrippedNonEmpty(pieces) ==
    IF pieces = <<>> THEN <<>>
    ELSE (IF strip(Head(pieces)) # <<>> THEN <<strip(Head(pieces))>> ELSE <<>>)
         \o StrippedNonEmpty(Tail(pieces))

\* variant: the columns that are empty after strip() are kept
Parts_keep_empty(line) ==
    LET pieces == IF Contains(line, <<"\t">>) THEN split(line, "\t")
                  ELSE IF Contains(line, <<"|">>) THEN split(line, "|")
                  ELSE SplitWide(line, 1, <<>>, <<>>)
    IN  [i \in 1..Len(pieces) |-> strip(pieces[i])]

\* the columns of a line (lines 79-86): tabs first, then pipes, then 2+ blanks
Parts(line) ==
    IF Contains(line, <<"\t">>) THEN StrippedNonEmpty(split(line, "\t"))
    ELSE IF Contains(line, <<"|">>) THEN StrippedNonEmpty(split(line, "|"))
    ELSE StrippedNonEmpty(SplitWide(line, 1, <<>>, <<>>))

\* the rows the loop of lines 64-112 reaches its assignments with: the
\* question number and the columns of each, in order
RECURSIVE AnswerRows(_, _)
AnswerRows(lines, rows) ==
    IF lines = <<>> THEN rows
    ELSE LET line == Head(lines)
             stripped == strip(line)
             q_match == QuestionNumber(stripped)
             parts == Parts(line)
         IN  IF \/ stripped = <<>>
                \/ Contains(upper(stripped), SET)
                \/ Contains(stripped, Question)
                \/ ~q_match.ok
                \/ Len(parts) < 4
             THEN AnswerRows(Tail(lines), rows)
             ELSE AnswerRows(Tail(lines),
                             Append(rows, [question_num |-> int(q_match.groups[1]),
                                           parts |-> parts]))

\* the assignments to results[SetNames[k]]: column k + 1 of every row where it
\* is not empty after strip()
RECURSIVE SetCaptures(_, _)
SetCaptures(rows, k) ==
    IF rows = <<>> THEN <<>>
    ELSE (IF strip(Head(rows).parts[k + 1]) # <<>>
          THEN <<<<Head(rows).question_num, strip(Head(rows).parts[k + 1])>>>>
          ELSE <<>>)
         \o SetCaptures(Tail(rows), k)

\* the first set, in the order of results.items(), without an answer; 0 if none
FirstEmpty(results) ==
    IF \E k \in 1..3 : results[SetNames[k]] = <<>>
    THEN CHOOSE k \in 1..3 :
            /\ results[SetNames[k]] = <<>>
            /\ \A j \in 1..(k - 1) : results[SetNames[j]] # <<>>
    ELSE 0

\* what the call gives: the three mappings, or the ValueError raised
parse_multi_set_answers(full_text) ==
    LET lines == split(full_text, "\n")
        rows == AnswerRows(lines, <<>>)
        results == [name \in {SetNames[k] : k \in 1..3} |->
                       AssignAll(<<>>, SetCaptures(rows,
                                                   CHOOSE k \in 1..3 : SetNames[k] = name))]
    IN  IF ~header_found(lines)
        THEN [raised |-> "ValueError", naming |-> "headers"]
        ELSE IF FirstEmpty(results) # 0
        THEN [raised |-> "ValueError", naming |-> SetNames[FirstEmpty(results)]]
        ELSE [results |-> results]

(***************************************************************************)
(* The cleanup utility src/backend/fix_answer_keys.py.                     *)
(***************************************************************************)
\* re.match(r'^([A-D])\.?\s*', original): every part but the letter is optional
OptionPrefix(original) ==
    IF original # <<>> /\ original[1] \in OptionChars
    THEN [ok |-> TRUE, groups |-> <<<<original[1]>>>>]
    ELSE NoMatch

\* variant: the letter counts only when a period follows it (\. for \.?)
FixedAnswer_period_required(original) ==
    IF OptionPrefix(original).ok /\ Len(original) >= 2 /\ original[2] = "."
    THEN OptionPrefix(original).groups[1]
    ELSE original

\* ak.correct_answer after the body of the loop (lines 23-35)
FixedAnswer(original) ==
    IF OptionPrefix(original).ok THEN OptionPrefix(original).groups[1] ELSE original

\* the loop over the AnswerKey rows: the rows after it, and updated_count
fix_answer_keys(answer_keys) ==
    [answer_keys |-> [q \in DOMAIN answer_keys |-> FixedAnswer(answer_keys[q])],
     updated_count |->
         Cardinality({q \in DOMAIN answer_keys : FixedAnswer(answer_keys[q]) # answer_keys[q]})]

(***************************************************************************)
(* Arguments the calls are made with.                                      *)
(***************************************************************************)
\* the three documented methods and two method names the code does not know
KnownMethods == {"exact", "fuzzy", "keyword"}
Methods == KnownMethods \cup {"semantic", "EXACT"}

\* the methods grade_test is called with
TestMethods == {"exact", "fuzzy"}

\* 0, the keyword default 0.6, the grade_answer default 0.75, 1, and one
\* threshold on each side of [0, 1]
Thresholds == {Frac(-1, 4), Frac(0, 1), Frac(3, 5), Frac(3, 4), Frac(1, 1), Frac(5, 4)}
DefaultThreshold == Frac(3, 4)

\* grade_test: the questions are numbered 1..NumQuestions, a submission has at
\* most MaxAnswers entries (a question may be answered twice, or not at all)
NumQuestions == 3
MaxAnswers == 2

\* answer texts of a test: an option letter and a one-letter free text
AnswerTexts == {<<"b">>, <<"E">>}

AnswerEntries ==
    [question_number : 1..NumQuestions, answer_text : AnswerTexts]

RECURSIVE ListsOfLen(_)
ListsOfLen(n) ==
    IF n = 0 THEN {<<>>}
    ELSE {Append(l, a) : l \in ListsOfLen(n - 1), a \in AnswerEntries}

Submissions == UNION {ListsOfLen(n) : n \in 0..MaxAnswers}

\* the answer keys: some of the questions, each with its correct answer
AnswerKeys ==
    UNION {[qs -> AnswerTexts] : qs \in SUBSET (1..NumQuestions)}

\* the production setting 60 (candidate_routes.py), and the two pass marks a
\* test of one or two questions can hit exactly
PassingPercentages == {50, 60, 100}

\* the worked example of the specification: the key {1: "A", 2: "Paris", 3: "B"}
\* and the submission [(1, "a"), (2, "paris"), (3, "C")]
ExampleKey == <<<<"A">>, <<"P", "a", "r", "i", "s">>, <<"B">>>>
ExampleSubmission ==
    <<[question_number |-> 1, answer_text |-> <<"a">>],
      [question_number |-> 2, answer_text |-> <<"p", "a", "r", "i", "s">>],
      [question_number |-> 3, answer_text |-> <<"C">>]>>

NoCall == [op |-> "none"]
NoRet == [none |-> TRUE]
EmptyDict == [q \in {} |-> <<>>]

\* the tables of models.py before any request: question set 1, with its
\* questions, and no test session, candidate answer or result
EmptyDb ==
    [question_sets |-> {1}, test_sessions |-> <<>>, candidate_answers |-> <<>>,
     results |-> <<>>]

(***************************************************************************)
(* The single-answer methods, each applied to a pair of answer texts.      *)
(***************************************************************************)
Init ==
    /\ candidate \in Texts
    /\ correct \in Texts
    /\ submitted = <<>>
    /\ answer_key = EmptyDict
    /\ pdf_text = <<>>
    /\ call = NoCall
    /\ ret = NoRet
    /\ db = EmptyDb
    /\ foreign_keys = FALSE
    /\ requests = <<>>

CalculateSimilarity ==
    /\ call = NoCall
    /\ call' = [op |-> "calculate_similarity"]
    /\ ret' = calculate_similarity(candidate, correct)
    /\ UNCHANGED <<candidate, correct, submitted, answer_key, pdf_text, db, foreign_keys,
                 requests>>

FuzzyMatch ==
    /\ call = NoCall
    /\ \E t \in Thresholds :
          /\ call' = [op |-> "fuzzy_match", threshold |-> t]
          /\ ret' = fuzzy_match(candidate, correct, t)
    /\ UNCHANGED <<candidate, correct, submitted, answer_key, pdf_text, db, foreign_keys,
                 requests>>

KeywordMatch ==
    /\ call = NoCall
    /\ \E t \in Thresholds :
          /\ call' = [op |-> "keyword_match", threshold |-> t]
          /\ ret' = keyword_match(candidate, correct, t)
    /\ UNCHANGED <<candidate, correct, submitted, answer_key, pdf_text, db, foreign_keys,
                 requests>>

GradeAnswer ==
    /\ call = NoCall
    /\ \E m \in Methods, t \in Thresholds :
          /\ call' = [op |-> "grade_answer", method |-> m, threshold |-> t]
          /\ ret' = grade_answer(candidate, correct, m, t)
    /\ UNCHANGED <<candidate, correct, submitted, answer_key, pdf_text, db, foreign_keys,
                 requests>>

Next ==
    \/ CalculateSimilarity
    \/ FuzzyMatch
    \/ KeywordMatch
    \/ GradeAnswer

Spec == Init /\ [][Next]_vars

(***************************************************************************)
(* grade_test, applied to a submission and an answer key.                  *)
(***************************************************************************)
InitTest ==
    /\ candidate = <<>>
    /\ correct = <<>>
    /\ \/ submitted \in Submissions /\ answer_key \in AnswerKeys
       \/ submitted = ExampleSubmission /\ answer_key = ExampleKey
    /\ pdf_text = <<>>
    /\ call = NoCall
    /\ ret = NoRet
    /\ db = EmptyDb
    /\ foreign_keys = FALSE
    /\ requests = <<>>

GradeTest ==
    /\ call = NoCall
    /\ \E m \in TestMethods, p \in PassingPercentages :
          /\ call' = [op |-> "grade_test", method |-> m, threshold |-> DefaultThreshold,
                      passing_percentage |-> p]
          /\ ret' = grade_test(submitted, answer_key, m, DefaultThreshold, p)
    /\ UNCHANGED <<candidate, correct, submitted, answer_key, pdf_text, db, foreign_keys,
                 requests>>

NextTest == GradeTest

SpecTest == InitTest /\ [][NextTest]_vars

(***************************************************************************)
(* The parsers, each applied to the text extracted from a PDF.             *)
(***************************************************************************)
\* a text is at most MaxTokens of these pieces: question marks Q1 and Q2, a
\* bare Q, the number "1.", blank, newline, the option letter A, a period,
\* and the header word SET
MaxTokens == 3

ParseTokens ==
    {<<"Q", "1">>, <<"Q", "2">>, <<"Q">>, <<"1", ".">>, <<" ">>, <<"\n">>, <<"A">>,
     <<".">>, SET}

RECURSIVE TokenTexts(_)
TokenTexts(n) ==
    IF n = 0 THEN {<<>>}
    ELSE {t \o k : t \in TokenTexts(n - 1), k \in ParseTokens}

ParseTexts == UNION {TokenTexts(n) : n \in 0..MaxTokens}

\* a multi-set answer sheet is at most MaxLines of these lines: a header
\* (spaced and upper case, unspaced and lower case), the two halves of a header,
\* rows for question 1 (with pipes, with tabs and other answers), a row for
\* question 2 with blanks, and rows for question 2 with an empty SET B column
\* (followed by nothing, and by a fifth column)
MaxLines == 3

Q1 == <<"Q", "1">>
Q2 == <<"Q", "2">>

MultiSetLines ==
    {join(<<"|">>, <<SET \o <<" ", "A">>, SET \o <<" ", "B">>, SET \o <<" ", "C">>>>),
     lower(join(<<" ">>, <<SET \o <<"A">>, SET \o <<"B">>, SET \o <<"C">>>>)),
     join(<<"|">>, <<SET \o <<" ", "A">>, SET \o <<" ", "B">>>>),
     SET \o <<" ", "C">>,
     join(<<"|">>, <<Q1, <<"A">>, <<"B">>, <<"C">>>>),
     join(<<"\t">>, <<Q1, <<"C">>, <<"A">>, <<"B">>>>),
     join(<<" ", " ">>, <<Q2, <<"A">>, <<"B">>, <<"C">>>>),
     join(<<"|">>, <<Q2, <<"A">>, <<" ">>, <<"C">>>>),
     join(<<"|">>, <<Q2, <<"A">>, <<" ">>, <<"C">>, <<"D">>>>)}

RECURSIVE LinesOfLen(_)
LinesOfLen(n) ==
    IF n = 0 THEN {<<>>}
    ELSE {Append(ls, l) : ls \in LinesOfLen(n - 1), l \in MultiSetLines}

MultiSetTexts ==
    {join(<<"\n">>, ls) : ls \in UNION {LinesOfLen(n) : n \in 1..MaxLines}}

\* an answer sheet of two lines, for the numbers captured twice: an answer
\* for question 1 in the form of each strategy of parse_answers, with the
\* answer A and with another answer
AnswerLineForms ==
    {Q1 \o <<" ", "A">>, Q1 \o <<" ", "B">>,
     Q1 \o <<"\n", "A">>, Q1 \o <<"\n", "B">>,
     <<"1", ".", " ", "A">>, <<"1", ".", " ", "B">>,
     <<"1", ".", " ", "A", "A">>, <<"1", ".", " ", "E">>,
     <<" ", "1", ".", " ", "A">>, <<" ", "1", ".", " ", "E">>}

AnswerPairs == {join(<<"\n">>, <<a, b>>) : a \in AnswerLineForms, b \in AnswerLineForms}

\* the question sheets of one block have at most MaxBlockLines lines after
\* the header
MaxBlockLines == 4

InitParse ==
    LET \* a question sheet of one block: the header Q1 on a line of its own,
        \* then lines that are each a line of text, an option, an option
        \* without a blank after its period, or a blank line
        BlockLineForms == {<<"x">>, <<"A", ".", " ", "y">>, <<"A", ".", "z">>, <<>>}
        BlockTexts ==
            {Q1 \o <<"\n">> \o join(<<"\n">>, ls) :
                ls \in UNION {[1..n -> BlockLineForms] : n \in 1..MaxBlockLines}}
        \* an answer sheet in the split-line form: lines that are each a header
        \* Q1 or Q2, a blank line, or an answer (one with blanks around it)
        SplitLineForms == {Q1, Q2, <<>>, <<"A">>, <<" ", "B", " ">>}
        SplitLineTexts ==
            {join(<<"\n">>, ls) :
                ls \in UNION {[1..n -> SplitLineForms] : n \in 1..MaxLines}}
        \* multi-set sheets under the header "SET A SET B SET C": the
        \* tab-separated row Q1, "A. 20", "B. ODQZM", "C. HAK", and a row for
        \* question 2 whose SET A answer is the word "Sunset"
        SheetHeader ==
            join(<<" ">>, <<SET \o <<" ", "A">>, SET \o <<" ", "B">>, SET \o <<" ", "C">>>>)
        ExampleRow ==
            join(<<"\t">>, <<Q1, <<"A", ".", " ", "2", "0">>,
                             <<"B", ".", " ", "O", "D", "Q", "Z", "M">>,
                             <<"C", ".", " ", "H", "A", "K">>>>)
        SunsetRow ==
            join(<<"\t">>, <<Q2, <<"S", "u", "n", "s", "e", "t">>, <<"B">>, <<"C">>>>)
        SheetExamples ==
            {join(<<"\n">>, <<SheetHeader, ExampleRow>>),
             join(<<"\n">>, <<SheetHeader, SunsetRow>>),
             join(<<"\n">>, <<SheetHeader, ExampleRow, SunsetRow>>)}
    IN  /\ candidate = <<>>
        /\ correct = <<>>
        /\ submitted = <<>>
        /\ answer_key = EmptyDict
        /\ pdf_text \in ParseTexts \cup MultiSetTexts \cup AnswerPairs \cup BlockTexts
                        \cup SplitLineTexts \cup SheetExamples
        /\ call = NoCall
        /\ ret = NoRet
        /\ db = EmptyDb
        /\ foreign_keys = FALSE
        /\ requests = <<>>

ParseQuestions ==
    /\ call = NoCall
    /\ call' = [op |-> "parse_questions"]
    /\ ret' = [questions |-> parse_questions(pdf_text)]
    /\ UNCHANGED <<candidate, correct, submitted, answer_key, pdf_text, db, foreign_keys,
                 requests>>

ParseAnswers ==
    /\ call = NoCall
    /\ call' = [op |-> "parse_answers"]
    /\ ret' = [answers |-> parse_answers(pdf_text)]
    /\ UNCHANGED <<candidate, correct, submitted, answer_key, pdf_text, db, foreign_keys,
                 requests>>

ParseMultiSetAnswers ==
    /\ call = NoCall
    /\ call' = [op |-> "parse_multi_set_answers"]
    /\ ret' = parse_multi_set_answers(pdf_text)
    /\ UNCHANGED <<candidate, correct, submitted, answer_key, pdf_text, db, foreign_keys,
                 requests>>

NextParse ==
    \/ ParseQuestions
    \/ ParseAnswers
    \/ ParseMultiSetAnswers

SpecParse == InitParse /\ [][NextParse]_vars

(***************************************************************************)
(* The cleanup utility, applied to the AnswerKey rows.                     *)
(***************************************************************************)
\* a stored answer is at most MaxKeyTokens of these pieces
MaxKeyTokens == 3

KeyTokens ==
    {<<"A">>, <<"B">>, <<"E">>, <<".", " ">>, <<" ">>, <<"2", "0">>, <<"f", "o", "o">>}

RECURSIVE KeyTexts(_)
KeyTexts(n) ==
    IF n = 0 THEN {<<>>}
    ELSE {t \o k : t \in KeyTexts(n - 1), k \in KeyTokens}

StoredAnswers == UNION {KeyTexts(n) : n \in 0..MaxKeyTokens}

\* the three answers of the specification's examples: "A. 20", "B", "E. foo"
ExampleAnswers ==
    {<<"A", ".", " ", "2", "0">>, <<"B">>, <<"E", ".", " ", "f", "o", "o">>}

\* one row, or two rows of which the second holds an example
AnswerKeyRows ==
    {<<a>> : a \in StoredAnswers} \cup {<<a, e>> : a \in StoredAnswers, e \in ExampleAnswers}

InitFix ==
    /\ candidate = <<>>
    /\ correct = <<>>
    /\ submitted = <<>>
    /\ answer_key \in AnswerKeyRows
    /\ pdf_text = <<>>
    /\ call = NoCall
    /\ ret = NoRet
    /\ db = EmptyDb
    /\ foreign_keys = FALSE
    /\ requests = <<>>

FixAnswerKeys ==
    /\ call = NoCall
    /\ call' = [op |-> "fix_answer_keys", original |-> answer_key]
    /\ answer_key' = fix_answer_keys(answer_key).answer_keys
    /\ ret' = [updated_count |-> fix_answer_keys(answer_key).updated_count]
    /\ UNCHANGED <<candidate, correct, submitted, pdf_text, db, foreign_keys, requests>>

NextFix == FixAnswerKeys

SpecFix == InitFix /\ [][NextFix]_vars

(***************************************************************************)
(* The test sessions: start_test_session and submit_test of                *)
(* src/backend/routes/candidate_routes.py, delete_question_set of          *)
(* src/backend/routes/admin_routes.py, and the tables of                   *)
(* src/backend/models.py.  The handlers run in a pool of threads, each     *)
(* request with a database session of its own: a request first makes its   *)
(* checks on the committed rows and then, in a second step, does the rest  *)
(* of the handler up to db.commit(), which writes all its rows or, on an   *)
(* IntegrityError, none.  A nullable column holds <<>> for NULL and <<v>>  *)
(* for the value v.  There is one candidate and one question set, 1.       *)
(***************************************************************************)
\* at most MaxRequests requests are made
MaxRequests == 3

\* the Question rows of question set 1, each with the correct_answer of its
\* AnswerKey row: question 1 has the answer key "ab", question 2 has none
QuestionRows ==
    {[id |-> 7, question_number |-> 1, correct_answer |-> <<<<"a", "b">>>>],
     [id |-> 8, question_number |-> 2, correct_answer |-> <<>>]}

\* submit_test from "Get all questions" to the Result record (lines
\* 158-223): the CandidateAnswer rows as the update loop leaves them, the
\* first row of a question taking the grading of every graded answer to it,
\* and the Result row
GradedSubmission(session_id, answers, questions) ==
    LET question_map == {q.id : q \in questions}
        correct_answers_map ==
            [n \in {q.question_number : q \in {k \in questions : k.correct_answer # <<>>}} |->
                (CHOOSE q \in questions : q.question_number = n).correct_answer[1]]
        saved == SelectSeq(answers, LAMBDA a : a.question_id \in question_map)
        Number(id) == (CHOOSE q \in questions : q.id = id).question_number
        candidate_answers_data ==
            [i \in 1..Len(saved) |-> [question_number |-> Number(saved[i].question_id),
                                      answer_text |-> saved[i].answer_text]]
        \* the row .first() finds for a question is the first one saved for it
        First(i) == \A j \in 1..(i - 1) : saved[j].question_id # saved[i].question_id
        \* the columns the update loop sets on row i: those of the last
        \* graded answer to its question, or NULL
        Graded(i, gradings) ==
            IF First(i) /\ gradings # <<>>
            THEN [is_correct |-> <<gradings[Len(gradings)].is_correct>>,
                  similarity_score |-> <<gradings[Len(gradings)].similarity_score>>]
            ELSE [is_correct |-> <<>>, similarity_score |-> <<>>]
        Rows(grading_result) ==
            [candidate_answers |->
                 [i \in 1..Len(saved) |->
                     [session_id |-> session_id,
                      question_id |-> saved[i].question_id,
                      answer_text |-> saved[i].answer_text]
                     @@ Graded(i, SelectSeq(grading_result.graded_answers,
                                            LAMBDA g : g.question_number =
                                                           Number(saved[i].question_id)))],
             result |-> [session_id |-> session_id,
                         total_questions |-> grading_result.total_questions,
                         correct_answers |-> grading_result.correct_answers,
                         score_percentage |-> grading_result.score_percentage,
                         passed |-> grading_result.passed]]
    IN  Rows(grade_test(candidate_answers_data, correct_answers_map, "fuzzy", Frac(3, 4),
                        60))

\* variant: results.session_id is not unique
UniqueViolation_unenforced(results, session_id) == FALSE

\* Result.session_id is unique: a second row for the session is refused
UniqueViolation(results, session_id) ==
    \E i \in 1..Len(results) : results[i].session_id = session_id

InitDb ==
    /\ candidate = <<>>
    /\ correct = <<>>
    /\ submitted = <<>>
    /\ answer_key = EmptyDict
    /\ pdf_text = <<>>
    /\ call = NoCall
    /\ ret = NoRet
    /\ db = EmptyDb
    \* SQLite enforces FOREIGN KEY only under PRAGMA foreign_keys = ON, which
    \* is set, or not, where the engine is created
    /\ foreign_keys \in BOOLEAN
    /\ requests = [r \in 1..MaxRequests |->
                      [op |-> "none", pc |-> "idle", session_id |-> 0, answers |-> <<>>,
                       status |-> 0]]

\* start_test_session up to "if existing_session: return existing_session";
\* the requests are numbered in the order they arrive
StartTestSession(r) ==
    /\ requests[r].pc = "idle"
    /\ r > 1 => requests[r - 1].pc # "idle"
    /\ LET existing_session ==
               {s \in 1..Len(db.test_sessions) :
                   /\ db.test_sessions[s].question_set_id = 1
                   /\ ~db.test_sessions[s].is_completed}
           request == [op |-> "start_test_session", pc |-> "done", session_id |-> 0,
                       answers |-> <<>>, status |-> 200]
       IN  requests' =
               [requests EXCEPT ![r] =
                   IF 1 \notin db.question_sets THEN [request EXCEPT !.status = 404]
                   ELSE IF existing_session # {}
                   THEN [request EXCEPT
                             !.session_id = CHOOSE s \in existing_session :
                                                \A t \in existing_session : s <= t]
                   ELSE [request EXCEPT !.pc = "commit"]]
    /\ UNCHANGED <<candidate, correct, submitted, answer_key, pdf_text, call, ret, db,
                   foreign_keys>>

\* start_test_session from "Create new session": db.add and db.commit
StartTestSessionCommit(r) ==
    /\ requests[r].op = "start_test_session"
    /\ requests[r].pc = "commit"
    /\ IF foreign_keys /\ 1 \notin db.question_sets
       THEN /\ requests' = [requests EXCEPT ![r].pc = "done", ![r].status = 500]
            /\ db' = db
       ELSE /\ requests' = [requests EXCEPT ![r].pc = "done",
                                            ![r].session_id = Len(db.test_sessions) + 1]
            /\ db' = [db EXCEPT !.test_sessions =
                                    Append(@, [question_set_id |-> 1,
                                               is_completed |-> FALSE])]
    /\ UNCHANGED <<candidate, correct, submitted, answer_key, pdf_text, call, ret,
                   foreign_keys>>

\* variant: a completed session is not refused
SubmitTest_unchecked(r) ==
    /\ requests[r].pc = "idle"
    /\ r > 1 => requests[r - 1].pc # "idle"
    /\ \E session_id \in 1..(Len(db.test_sessions) + 1) :
          LET request == [op |-> "submit_test", pc |-> "done", session_id |-> session_id,
                          answers |-> <<>>, status |-> 200]
          IN  IF session_id > Len(db.test_sessions)
              THEN requests' = [requests EXCEPT ![r] = [request EXCEPT !.status = 404]]
              ELSE \E answers \in
                          {<<[question_id |-> 7, answer_text |-> <<"a", "b">>]>>,
                           <<[question_id |-> 8, answer_text |-> <<"a", "b">>]>>,
                           <<[question_id |-> 7, answer_text |-> <<"a", "b">>],
                             [question_id |-> 7, answer_text |-> <<"b">>]>>,
                           <<[question_id |-> 9, answer_text |-> <<"b">>],
                             [question_id |-> 7, answer_text |-> <<"b">>]>>} :
                       requests' = [requests EXCEPT ![r] =
                                       [request EXCEPT !.pc = "commit",
                                                       !.answers = answers]]
    /\ UNCHANGED <<candidate, correct, submitted, answer_key, pdf_text, call, ret, db,
                   foreign_keys>>

\* submit_test up to "if session.is_completed: raise", for a submission that
\* answers question 1, question 2 (no answer key), question 1 twice, or a
\* question of no question set and question 1
SubmitTest(r) ==
    /\ requests[r].pc = "idle"
    /\ r > 1 => requests[r - 1].pc # "idle"
    /\ \E session_id \in 1..(Len(db.test_sessions) + 1) :
          LET request == [op |-> "submit_test", pc |-> "done", session_id |-> session_id,
                          answers |-> <<>>, status |-> 200]
          IN  IF session_id > Len(db.test_sessions)
              THEN requests' = [requests EXCEPT ![r] = [request EXCEPT !.status = 404]]
              ELSE IF db.test_sessions[session_id].is_completed
              THEN requests' = [requests EXCEPT ![r] = [request EXCEPT !.status = 400]]
              ELSE \E answers \in
                          {<<[question_id |-> 7, answer_text |-> <<"a", "b">>]>>,
                           <<[question_id |-> 8, answer_text |-> <<"a", "b">>]>>,
                           <<[question_id |-> 7, answer_text |-> <<"a", "b">>],
                             [question_id |-> 7, answer_text |-> <<"b">>]>>,
                           <<[question_id |-> 9, answer_text |-> <<"b">>],
                             [question_id |-> 7, answer_text |-> <<"b">>]>>} :
                       requests' = [requests EXCEPT ![r] =
                                       [request EXCEPT !.pc = "commit",
                                                       !.answers = answers]]
    /\ UNCHANGED <<candidate, correct, submitted, answer_key, pdf_text, call, ret, db,
                   foreign_keys>>

\* submit_test from "Get all questions" to db.commit()
SubmitTestCommit(r) ==
    /\ requests[r].op = "submit_test"
    /\ requests[r].pc = "commit"
    /\ LET session_id == requests[r].session_id
           questions == IF 1 \in db.question_sets THEN QuestionRows ELSE {}
           Committed(graded) ==
               [db EXCEPT !.candidate_answers = @ \o graded.candidate_answers,
                          !.results = Append(@, graded.result),
                          !.test_sessions[session_id].is_completed = TRUE]
       IN  IF UniqueViolation(db.results, session_id)
           THEN /\ requests' = [requests EXCEPT ![r].pc = "done", ![r].status = 500]
                /\ db' = db
           ELSE /\ requests' = [requests EXCEPT ![r].pc = "done"]
                /\ db' = Committed(GradedSubmission(session_id, requests[r].answers,
                                                    questions))
    /\ UNCHANGED <<candidate, correct, submitted, answer_key, pdf_text, call, ret,
                   foreign_keys>>

\* delete_question_set up to "if active_sessions > 0: raise"
DeleteQuestionSet(r) ==
    /\ requests[r].pc = "idle"
    /\ r > 1 => requests[r - 1].pc # "idle"
    /\ LET active_sessions ==
               Cardinality({s \in 1..Len(db.test_sessions) :
                               /\ db.test_sessions[s].question_set_id = 1
                               /\ ~db.test_sessions[s].is_completed})
           request == [op |-> "delete_question_set", pc |-> "done", session_id |-> 0,
                       answers |-> <<>>, status |-> 200]
       IN  requests' =
               [requests EXCEPT ![r] =
                   IF 1 \notin db.question_sets THEN [request EXCEPT !.status = 404]
                   ELSE IF active_sessions > 0 THEN [request EXCEPT !.status = 400]
                   ELSE [request EXCEPT !.pc = "commit"]]
    /\ UNCHANGED <<candidate, correct, submitted, answer_key, pdf_text, call, ret, db,
                   foreign_keys>>

\* delete_question_set from db.delete(question_set): the questions, their
\* answer keys and their candidate answers go with the question set; the
\* test sessions stay, and refer to it
DeleteQuestionSetCommit(r) ==
    /\ requests[r].op = "delete_question_set"
    /\ requests[r].pc = "commit"
    /\ IF \/ 1 \notin db.question_sets
          \/ /\ foreign_keys
             /\ \E s \in 1..Len(db.test_sessions) : db.test_sessions[s].question_set_id = 1
       THEN /\ requests' = [requests EXCEPT ![r].pc = "done", ![r].status = 500]
            /\ db' = db
       ELSE /\ requests' = [requests EXCEPT ![r].pc = "done"]
            /\ db' = [db EXCEPT
                         !.question_sets = @ \ {1},
                         !.candidate_answers =
                             SelectSeq(@, LAMBDA a :
                                              a.question_id \notin {q.id : q \in QuestionRows})]
    /\ UNCHANGED <<candidate, correct, submitted, answer_key, pdf_text, call, ret,
                   foreign_keys>>

NextDb ==
    \E r \in 1..MaxRequests :
        \/ StartTestSession(r)
        \/ StartTestSessionCommit(r)
        \/ SubmitTest(r)
        \/ SubmitTestCommit(r)
        \/ DeleteQuestionSet(r)
        \/ DeleteQuestionSetCommit(r)

SpecDb == InitDb /\ [][NextDb]_vars

(***************************************************************************)
(* Properties of grade_test (checked under SpecTest).                      *)
(***************************************************************************)
Graded == call.op = "grade_test"

\* the entries of the submission whose question has an answer key, in order
Keyed == SelectSeq(submitted, LAMBDA a : a.question_number \in DOMAIN answer_key)

\* C1: for every submission, also one that answers a question more than once,
\* and every answer key, grade_test returns correct_count <= total_questions
\* and a score_percentage within [0, 100].
C1_ScoreWithinRange ==
    Graded =>
        /\ ret.correct_answers <= ret.total_questions
        /\ DoubleGE(ret.score_percentage, DoubleZero)
        /\ DoubleGE(float(100), ret.score_percentage)

\* C3: total_questions is the number of entries of the answer key whatever is
\* submitted, and an answer to a question without a key is skipped: the
\* per-question list holds exactly the keyed entries of the submission, in
\* order, and correct_count counts the correct ones among them.
C3_TotalAndSkipped ==
    Graded =>
        /\ ret.total_questions = Cardinality(DOMAIN answer_key)
        /\ Len(ret.graded_answers) = Len(Keyed)
        /\ \A i \in 1..Len(Keyed) :
              /\ ret.graded_answers[i].question_number = Keyed[i].question_number
              /\ ret.graded_answers[i].candidate_answer = Keyed[i].answer_text
        /\ ret.correct_answers =
              Cardinality({i \in 1..Len(ret.graded_answers) : ret.graded_answers[i].is_correct})

\* C3 happens: an answer without a key in front of a keyed, correct answer, and
\* a key with more entries than are answered
C3_Witness ==
    /\ Graded
    /\ Len(submitted) = 2
    /\ submitted[1].question_number \notin DOMAIN answer_key
    /\ Len(ret.graded_answers) = 1
    /\ ret.correct_answers = 1
    /\ ret.total_questions = 2

\* C4: score_percentage is exactly 100 x correct_count / total_questions when
\* total_questions > 0 (the float that 100 * correct_count / total_questions
\* is), and 0 when the answer key is empty.
C4_ExactPercentage ==
    Graded =>
        ret.score_percentage =
            IF ret.total_questions > 0
            THEN fl_div(100 * ret.correct_answers, ret.total_questions)
            ELSE DoubleZero

\* C5: passed is true exactly when score_percentage >= passing_percentage; a
\* score_percentage equal to the passing percentage passes.
C5_PassedIffAtLeast ==
    Graded =>
        /\ ret.passed <=> ~DoubleLT(ret.score_percentage, float(call.passing_percentage))
        /\ ret.score_percentage = float(call.passing_percentage) => ret.passed

\* C5 happens: half of two questions correct against a passing percentage of 50
C5_Witness ==
    /\ Graded
    /\ call.passing_percentage = 50
    /\ ret.total_questions = 2
    /\ ret.correct_answers = 1
    /\ ret.score_percentage = float(call.passing_percentage)
    /\ ret.passed

\* the worked example graded with the fuzzy method, threshold 0.75, pass mark 60
ExampleGraded ==
    /\ Graded
    /\ submitted = ExampleSubmission
    /\ answer_key = ExampleKey
    /\ call.method = "fuzzy"
    /\ call.threshold = DefaultThreshold
    /\ call.passing_percentage = 60

\* C12: the key {1: "A", 2: "Paris", 3: "B"} and the submission [(1, "a"),
\* (2, "paris"), (3, "C")], graded with method fuzzy, threshold 0.75 and
\* passing percentage 60, give Q1 correct, Q2 correct with similarity 1.0 and
\* Q3 incorrect, in submission order, correct_count 2, total 3, a score within
\* 0.01 of 66.67 and passed = true.
C12_WorkedExample ==
    ExampleGraded =>
        /\ Len(ret.graded_answers) = 3
        /\ \A i \in 1..3 : ret.graded_answers[i].question_number = i
        /\ ret.graded_answers[1].is_correct
        /\ ret.graded_answers[2].is_correct
        /\ ret.graded_answers[2].similarity_score = One
        /\ ~ret.graded_answers[3].is_correct
        /\ ret.correct_answers = 2
        /\ ret.total_questions = 3
        /\ DoubleLT(fl_div(6666, 100), ret.score_percentage)
        /\ DoubleLT(ret.score_percentage, fl_div(6668, 100))
        /\ ret.passed

\* C12 happens: the worked example has been graded, two of three correct
C12_Witness ==
    /\ ExampleGraded
    /\ ret.correct_answers = 2
    /\ ret.score_percentage = fl_mul(fl_div(2, 3), 100)
    /\ ret.passed

(***************************************************************************)
(* Properties of the single-answer methods (checked under Spec).           *)
(***************************************************************************)
InUnitInterval(x) == FracGE(x, Zero) /\ FracGE(One, x)

Normalised(text) == strip(lower(text))

C6_ScoreInUnitInterval ==
    call.op = "grade_answer" =>
        /\ InUnitInterval(ret.similarity_score)
        /\ (call.method = "exact" \/ upper(strip(correct)) \in OptionLetters) =>
              ret.similarity_score = IF ret.is_correct THEN One ELSE Zero

\* C6 happens: a fuzzy score strictly between 0 and 1
C6_Witness ==
    /\ call.op = "grade_answer"
    /\ call.method = "fuzzy"
    /\ ret.similarity_score = Frac(2, 3)
    /\ ret.is_correct

\* C7 as stated: calculate_similarity is symmetric, and sim(x, x) = 1.0 for
\* every non-empty x.
C7_SymmetricReflexiveNonEmpty ==
    call.op = "calculate_similarity" =>
        /\ ret = calculate_similarity(correct, candidate)
        /\ (candidate = correct /\ candidate # <<>>) => ret = One

\* C7 amended: calculate_similarity is symmetric, and sim(x, x) = 1.0 for every
\* x that is non-empty after lowercasing and trimming.
C7_SymmetricReflexiveNormalised ==
    call.op = "calculate_similarity" =>
        /\ ret = calculate_similarity(correct, candidate)
        /\ (candidate = correct /\ Normalised(candidate) # <<>>) => ret = One

\* C7 happens: a text with white space in front compared with itself
C7_Witness ==
    /\ call.op = "calculate_similarity"
    /\ candidate = <<" ", "b">>
    /\ correct = candidate
    /\ ret = One

\* C8: with the fuzzy method, when the candidate or the correct answer is empty
\* after lowercasing and trimming, similarity is 0.0 and the pair is no match,
\* for every threshold in [0, 1].
C8_EmptyNeverMatches ==
    (/\ call.op = "fuzzy_match"
     /\ InUnitInterval(call.threshold)
     /\ Normalised(candidate) = <<>> \/ Normalised(correct) = <<>>) =>
        /\ ret.similarity = Zero
        /\ ~ret.is_match

\* the correct answer's words without the stop words, and the candidate's words
Keywords == findall_words(lower(correct)) \ stop_words
CandidateWords == findall_words(lower(candidate))

\* C9: keyword_match removes the stop words from the correct answer's words
\* only; with no word left the result is (no match, 0.0) for every threshold,
\* otherwise the score is |keywords among the candidate's words| / |keywords|,
\* at most 1.0, and the pair matches iff score >= threshold.
C9_KeywordScore ==
    call.op = "keyword_match" =>
        IF Keywords = {}
        THEN ret = [is_match |-> FALSE, match_percentage |-> Zero]
        ELSE /\ ret.match_percentage =
                   Frac(Cardinality(Keywords \cap CandidateWords), Cardinality(Keywords))
             /\ FracGE(One, ret.match_percentage)
             /\ ret.is_match <=> FracGE(ret.match_percentage, call.threshold)

\* C9 happens: one of the two keywords of the correct answer is found
C9_Witness ==
    /\ call.op = "keyword_match"
    /\ correct = <<"b", " ", "E">>
    /\ candidate = <<"E">>
    /\ call.threshold = Frac(3, 5)
    /\ ret = [is_match |-> FALSE, match_percentage |-> Frac(1, 2)]

\* C10: for a correct answer that is no option letter, grade_answer with a
\* method other than exact, fuzzy and keyword returns what the fuzzy method
\* returns for the same candidate, correct answer and threshold.
C10_UnknownMethodIsFuzzy ==
    (/\ call.op = "grade_answer"
     /\ call.method \notin KnownMethods
     /\ upper(strip(correct)) \notin OptionLetters) =>
        /\ ret = grade_answer(candidate, correct, "fuzzy", call.threshold)
        /\ ret.is_correct = fuzzy_match(candidate, correct, call.threshold).is_match
        /\ ret.similarity_score = fuzzy_match(candidate, correct, call.threshold).similarity

\* C10 happens: an unknown method grades a near match as the fuzzy method does,
\* where the exact method would not
C10_Witness ==
    /\ call.op = "grade_answer"
    /\ call.method = "EXACT"
    /\ call.threshold = Frac(3, 5)
    /\ candidate = <<"b", "E">>
    /\ correct = <<"E">>
    /\ ret = [is_correct |-> TRUE, similarity_score |-> Frac(2, 3)]

\* C11: grade_answer called with a threshold outside [0, 1] returns what it
\* returns, for the same answers and method, with the default threshold 0.75.
C11_OutOfRangeThresholdIsDefault ==
    (call.op = "grade_answer" /\ ~InUnitInterval(call.threshold)) =>
        ret = grade_answer(candidate, correct, call.method, DefaultThreshold)

(***************************************************************************)
(* Properties of the parsers (checked under SpecParse).                    *)
(***************************************************************************)
QuestionsParsed == call.op = "parse_questions"
AnswersParsed == call.op = "parse_answers"
MultiSetParsed == call.op = "parse_multi_set_answers"

\* C13: parse_questions returns the output of the first strategy, in the
\* order block format, single-pass numbered-line, line-by-line, that produces
\* at least one record; a block strategy without a record leaves the later
\* strategies to be tried, and the result is empty only when none of the
\* three produces a record.
C13_FirstProducingStrategy ==
    QuestionsParsed =>
        ret.questions =
            IF BlockStrategy(pdf_text) # <<>> THEN BlockStrategy(pdf_text)
            ELSE IF NumberedStrategy(pdf_text) # <<>> THEN NumberedStrategy(pdf_text)
            ELSE parse_questions_line_by_line(pdf_text)

\* C14: no record returned by parse_questions has an empty question_text.
C14_NoEmptyQuestionText ==
    QuestionsParsed =>
        \A i \in 1..Len(ret.questions) : ret.questions[i].question_text # <<>>

\* C15: the result of parse_questions never holds two records with the same
\* question_number.
C15_QuestionNumbersUnique ==
    QuestionsParsed =>
        \A i, j \in 1..Len(ret.questions) :
            ret.questions[i].question_number = ret.questions[j].question_number => i = j

\* the mapping each strategy of parse_answers produces on its own, in the
\* order inline table, split-line table, option-letter-only, full-text,
\* line-by-line
StrategyCaptures(text) ==
    <<InlineCaptures(text), SplitLineCaptures(text), OptionLetterCaptures(text),
      FullTextCaptures(text), LineByLineCaptures(text)>>

\* the first strategy with a capture; 0 when no strategy has one
Winner(text) ==
    LET all == StrategyCaptures(text)
    IN  IF \E k \in 1..5 : all[k] # <<>>
        THEN CHOOSE k \in 1..5 : all[k] # <<>> /\ \A j \in 1..(k - 1) : all[j] = <<>>
        ELSE 0

\* the answer of the last capture of number n
LastAnswer(captures, n) ==
    captures[CHOOSE i \in 1..Len(captures) :
                /\ captures[i][1] = n
                /\ \A j \in (i + 1)..Len(captures) : captures[j][1] # n][2]

\* the mapping that holds, for every captured number, its last answer
LastWins(captures) ==
    [n \in {captures[i][1] : i \in 1..Len(captures)} |-> LastAnswer(captures, n)]

\* C16: parse_answers returns the mapping of the first strategy, in the order
\* inline table, split-line table, option-letter-only, full-text,
\* line-by-line, whose result is not empty, and nothing of a later strategy;
\* it returns the empty mapping when every strategy's result is empty.
C16_FirstNonEmptyStrategy ==
    AnswersParsed =>
        LET winner == Winner(pdf_text)
            captures == StrategyCaptures(pdf_text)[winner]
        IN  /\ winner = 0 => ret.answers = <<>>
            /\ winner # 0 =>
                  /\ ret.answers # <<>>
                  /\ DOMAIN ret.answers = {captures[i][1] : i \in 1..Len(captures)}
                  /\ \A n \in DOMAIN ret.answers :
                        \E i \in 1..Len(captures) : captures[i] = <<n, ret.answers[n]>>

\* C16 happens: the option-letter strategy answers "1. A" and leaves "1. E"
\* out, where the full-text strategy, which comes later, would answer E
C16_Witness ==
    /\ AnswersParsed
    /\ pdf_text = <<"1", ".", " ", "A", "\n", "1", ".", " ", "E">>
    /\ Winner(pdf_text) = 3
    /\ ret.answers = <<<<"A">>>>
    /\ LastWins(FullTextCaptures(pdf_text)) = <<<<"E">>>>

\* the rows of a multi-set sheet and the captures of set k (1 = SET A)
SheetCaptures(k) == SetCaptures(AnswerRows(split(pdf_text, "\n"), <<>>), k)

\* C17: when a question number is captured more than once in one pass, the
\* mapping holds the answer of the later occurrence: in parse_answers for the
\* strategy that gives the result, in the multi-set parser for each set.
C17_LaterOccurrenceWins ==
    /\ AnswersParsed =>
          LET winner == Winner(pdf_text)
          IN  winner # 0 => ret.answers = LastWins(StrategyCaptures(pdf_text)[winner])
    /\ (MultiSetParsed /\ "results" \in DOMAIN ret) =>
          \A k \in 1..3 : ret.results[SetNames[k]] = LastWins(SheetCaptures(k))

\* C17 happens: question 1 is answered twice on an inline table, A then B
C17_Witness ==
    /\ AnswersParsed
    /\ pdf_text = <<"Q", "1", " ", "A", "\n", "Q", "1", " ", "B">>
    /\ InlineCaptures(pdf_text) = <<<<1, <<"A">>>>, <<1, <<"B">>>>>>
    /\ ret.answers = <<<<"B">>>>

\* a single line with a marker, spaced or unspaced, in any case, of each set
SingleHeaderLine ==
    \E line \in {split(pdf_text, "\n")[i] : i \in 1..Len(split(pdf_text, "\n"))} :
        \A letter \in {"A", "B", "C"} :
            \/ Contains(upper(line), <<"S", "E", "T", " ", letter>>)
            \/ Contains(upper(line), <<"S", "E", "T", letter>>)

Failed == "raised" \in DOMAIN ret

\* C18: the multi-set parser fails exactly when no single line holds the
\* markers of all three sets, or when after the scan one of the three mappings
\* is empty, and it then names a set whose mapping is empty; otherwise it
\* returns three non-empty mappings.
C18_FormatErrorExactly ==
    MultiSetParsed =>
        /\ Failed <=> (~SingleHeaderLine \/ \E k \in 1..3 : SheetCaptures(k) = <<>>)
        /\ (Failed /\ ~SingleHeaderLine) => ret.naming = "headers"
        /\ (Failed /\ SingleHeaderLine) =>
              \E k \in 1..3 : ret.naming = SetNames[k] /\ SheetCaptures(k) = <<>>
        /\ ~Failed => \A k \in 1..3 : ret.results[SetNames[k]] # <<>>

\* C18 happens: the two halves of the header on two lines and a full row fail
\* for the missing header
C18_Witness ==
    /\ MultiSetParsed
    /\ ~SingleHeaderLine
    /\ Contains(pdf_text, <<"S", "E", "T", " ", "A">>)
    /\ Contains(pdf_text, <<"S", "E", "T", " ", "C">>)
    /\ SheetCaptures(1) # <<>>
    /\ ret = [raised |-> "ValueError", naming |-> "headers"]

\* the columns of a line as they stand, trimmed, an empty one included
Columns(line) ==
    LET pieces == IF Contains(line, <<"\t">>) THEN split(line, "\t")
                  ELSE IF Contains(line, <<"|">>) THEN split(line, "|")
                  ELSE SplitWide(line, 1, <<>>, <<>>)
    IN  [i \in 1..Len(pieces) |-> strip(pieces[i])]

\* a line the scan takes for a data row: not blank, no set label, no
\* "Question", a leading question number, and four columns or more
DataRow(line) ==
    /\ strip(line) # <<>>
    /\ ~Contains(upper(strip(line)), SET)
    /\ ~Contains(strip(line), Question)
    /\ QuestionNumber(strip(line)).ok
    /\ Len(Columns(line)) >= 4

\* C19: a data row of a sheet with a header records, for every set whose
\* column is not empty after trimming, that column under the set's own label
\* (SET A column 2, SET B column 3, SET C column 4), also when another
\* column of the row is empty; a later row for the same number may replace it.
C19_EmptyColumnSkippedAlone ==
    (MultiSetParsed /\ SingleHeaderLine) =>
        LET lines == split(pdf_text, "\n")
            Number(i) == int(QuestionNumber(strip(lines[i])).groups[1])
        IN  \A i \in 1..Len(lines), k \in 1..3 :
                (/\ DataRow(lines[i])
                 /\ Columns(lines[i])[k + 1] # <<>>
                 /\ \A j \in (i + 1)..Len(lines) :
                       ~(DataRow(lines[j]) /\ Number(j) = Number(i))) =>
                    /\ ~Failed
                    /\ Number(i) \in DOMAIN ret.results[SetNames[k]]
                    /\ ret.results[SetNames[k]][Number(i)] = Columns(lines[i])[k + 1]

\* the lines of the text that are solely a header Q<number>
HeaderLines(text) ==
    LET lines == split(text, "\n")
    IN  {i \in 1..Len(lines) : QNumberLine(strip(lines[i]))}

\* C21: in the block strategy of parse_questions only a line that is solely
\* a header Q<number> starts a block: every record carries the number of
\* such a line and there are no more records than such lines, so a header
\* inside a line of other text makes no record.
C21_OnlyHeaderLinesSplit ==
    (QuestionsParsed /\ BlockFindall(pdf_text, 1, <<>>) # <<>>) =>
        LET lines == split(pdf_text, "\n")
            headers == HeaderLines(pdf_text)
        IN  /\ Len(ret.questions) <= Cardinality(headers)
            /\ \A r \in 1..Len(ret.questions) :
                  \E i \in headers :
                      int(Tail(strip(lines[i]))) = ret.questions[r].question_number

\* the lines of a block that are not blank, trimmed
BlockBody(block) ==
    LET lines == split(block, "\n")
    IN  SelectSeq([i \in 1..Len(lines) |-> strip(lines[i])], LAMBDA l : l # <<>>)

IsOption(line) == OptionLine(line).ok

\* a block with a stem and options: its first line is not an option
StemAndOptions(body) ==
    /\ body # <<>>
    /\ ~IsOption(body[1])
    /\ \E i \in 1..Len(body) : IsOption(body[i])

FirstOption(body) ==
    CHOOSE i \in 1..Len(body) :
        IsOption(body[i]) /\ \A j \in 1..(i - 1) : ~IsOption(body[j])

\* the last of the lines after the option of line i that are not options
OptionEnd(body, i) ==
    CHOOSE e \in i..Len(body) :
        /\ \A j \in (i + 1)..e : ~IsOption(body[j])
        /\ e = Len(body) \/ IsOption(body[e + 1])

\* the option of line i: its letter, ". ", its text, and the lines appended
OptionText(body, i) ==
    join(<<" ">>,
         <<OptionLine(body[i]).groups[1] \o <<".", " ">> \o OptionLine(body[i]).groups[2]>>
         \o SubSeq(body, i + 1, OptionEnd(body, i)))

OptionTexts(body) ==
    LET starts == SelectSeq([i \in 1..Len(body) |-> i], LAMBDA i : IsOption(body[i]))
    IN  [k \in 1..Len(starts) |-> OptionText(body, starts[k])]

\* the stem lines joined by blanks, the separator, the options one a line
EmittedText(body, separator) ==
    join(<<" ">>, SubSeq(body, 1, FirstOption(body) - 1))
    \o separator \o join(<<"\n">>, OptionTexts(body))

\* every block with a stem and options has a record with the block's number
\* and the emitted text, stem and options set apart by the separator
BlocksEmitted(separator) ==
    QuestionsParsed =>
        LET matches == BlockFindall(pdf_text, 1, <<>>)
        IN  \A m \in 1..Len(matches) :
                LET body == BlockBody(matches[m][2])
                IN  StemAndOptions(body) =>
                        \E r \in 1..Len(ret.questions) :
                            ret.questions[r] =
                                [question_number |-> int(matches[m][1]),
                                 question_text |-> EmittedText(body, separator)]

\* C22 as claimed: the text of a block with a stem and options is the stem
\* lines joined by single blanks, then a blank line, then the options joined
\* by newlines in the order met, a line after an option appended to it.
C22_StemBlankLineOptions == BlocksEmitted(<<"\n", "\n">>)

\* C22 as the code has it: the same text with a single newline, and no blank
\* line, between the stem and the first option.
C22_StemNewlineOptions == BlocksEmitted(<<"\n">>)

\* C22 happens: a stem, an option, a line appended to it, the letter again
C22_Witness ==
    /\ QuestionsParsed
    /\ pdf_text = <<"Q", "1", "\n", "x", "\n", "A", ".", " ", "y", "\n", "x", "\n",
                    "A", ".", "z">>
    /\ ret.questions =
           <<[question_number |-> 1,
              question_text |-> <<"x", "\n", "A", ".", " ", "y", " ", "x", "\n",
                                  "A", ".", " ", "z">>]>>

\* the captures of the split-line strategy line by line: a header Q<number>
\* whose next line is not a header takes that line, trimmed; blank_answers
\* tells whether a blank next line counts as an answer
SplitLineExpected(text, blank_answers) ==
    LET lines == split(text, "\n")
        Receives(i) ==
            /\ QNumberLine(strip(lines[i]))
            /\ i + 1 <= Len(lines)
            /\ ~QNumberLine(strip(lines[i + 1]))
            /\ blank_answers \/ strip(lines[i + 1]) # <<>>
        headers == SelectSeq([i \in 1..Len(lines) |-> i], Receives)
    IN  [k \in 1..Len(headers) |->
            <<int(Tail(strip(lines[headers[k]]))), strip(lines[headers[k] + 1])>>]

\* C23 as claimed: when the split-line strategy of parse_answers is reached,
\* every header line Q<number> whose next line is not a header receives an
\* answer, that line, and no other number is answered.
C23_EveryHeaderAnswered ==
    LET expected == SplitLineExpected(pdf_text, TRUE)
    IN  (AnswersParsed /\ InlineCaptures(pdf_text) = <<>> /\ expected # <<>>) =>
            /\ DOMAIN ret.answers = {expected[k][1] : k \in 1..Len(expected)}
            /\ \A n \in DOMAIN ret.answers :
                  \E k \in 1..Len(expected) :
                      /\ expected[k][1] = n
                      /\ expected[k][2] # <<>> => ret.answers[n] = expected[k][2]

\* C23 as the code has it: a header line Q<number> receives the line right
\* after it, trimmed, when that line is neither blank nor a header, and
\* nothing from it otherwise; these are all the captures of the strategy,
\* and they are the result when there is one.
C23_NextLineUnlessBlankOrHeader ==
    LET expected == SplitLineExpected(pdf_text, FALSE)
    IN  (AnswersParsed /\ InlineCaptures(pdf_text) = <<>>) =>
            /\ SplitLineCaptures(pdf_text) = expected
            /\ expected # <<>> => ret.answers = LastWins(expected)

\* C23 happens: Q1 is followed by the header Q2, and Q2 by the answer A
C23_Witness ==
    /\ AnswersParsed
    /\ pdf_text = <<"Q", "1", "\n", "Q", "2", "\n", "A">>
    /\ ret.answers = [n \in {2} |-> <<"A">>]

\* a row made of a question number and three answers that are not empty
ThreeAnswerRow(line) ==
    LET columns == Columns(line)
        number == IF columns[1] # <<>> /\ columns[1][1] \in {"Q", "q"}
                  THEN Tail(columns[1]) ELSE columns[1]
    IN  /\ Len(columns) = 4
        /\ number # <<>>
        /\ \A i \in 1..Len(number) : number[i] \in Digits
        /\ \A k \in 2..4 : columns[k] # <<>>

\* C24: under a header, every row made of a number and three answers that
\* are not empty, its columns split at tabs if it has one, else at pipes if it
\* has one, else at runs of two blanks or more, is accepted and gives its
\* answers to SET A, SET B and SET C in that order (a later row for the same
\* number may replace them); the sheet "SET A SET B SET C" with the tab row
\* Q1, "A. 20", "B. ODQZM", "C. HAK" gives these three answers for question 1.
C24_ThreeAnswerRowAccepted ==
    (MultiSetParsed /\ SingleHeaderLine) =>
        LET lines == split(pdf_text, "\n")
            Numbered(i) == QuestionNumber(strip(lines[i]))
            Number(i) == int(Numbered(i).groups[1])
        IN  /\ \A i \in 1..Len(lines), k \in 1..3 :
                  (/\ ThreeAnswerRow(lines[i])
                   /\ \A j \in (i + 1)..Len(lines) :
                         ~(Numbered(j).ok /\ Number(j) = Number(i))) =>
                      /\ ~Failed
                      /\ Number(i) \in DOMAIN ret.results[SetNames[k]]
                      /\ ret.results[SetNames[k]][Number(i)] = Columns(lines[i])[k + 1]
            /\ pdf_text = <<"S", "E", "T", " ", "A", " ", "S", "E", "T", " ", "B", " ",
                            "S", "E", "T", " ", "C", "\n", "Q", "1", "\t",
                            "A", ".", " ", "2", "0", "\t",
                            "B", ".", " ", "O", "D", "Q", "Z", "M", "\t",
                            "C", ".", " ", "H", "A", "K">> =>
                  /\ ~Failed
                  /\ ret.results["SET A"] = [n \in {1} |-> <<"A", ".", " ", "2", "0">>]
                  /\ ret.results["SET B"] =
                         [n \in {1} |-> <<"B", ".", " ", "O", "D", "Q", "Z", "M">>]
                  /\ ret.results["SET C"] = [n \in {1} |-> <<"C", ".", " ", "H", "A", "K">>]

\* C25: when parse_multi_set_answers returns, the mappings of SET A, SET B
\* and SET C hold the same question numbers.
C25_SameQuestionNumbers ==
    (MultiSetParsed /\ ~Failed) =>
        /\ DOMAIN ret.results["SET A"] = DOMAIN ret.results["SET B"]
        /\ DOMAIN ret.results["SET B"] = DOMAIN ret.results["SET C"]

\* C25 happens: a sheet with rows for questions 1 and 2 is returned, a row
\* with an empty SET B column among its lines
C25_Witness ==
    /\ MultiSetParsed
    /\ ~Failed
    /\ \E i \in 1..Len(split(pdf_text, "\n")) :
          LET columns == Columns(split(pdf_text, "\n")[i])
          IN  Len(columns) >= 4 /\ columns[3] = <<>>
    /\ DOMAIN ret.results["SET B"] = {1, 2}

(***************************************************************************)
(* Properties of the cleanup utility (checked under SpecFix).              *)
(***************************************************************************)
Fixed == call.op = "fix_answer_keys"

\* C20: the cleanup utility replaces a stored answer that begins with one of
\* the upper-case letters A-D (whatever follows: a period, a blank, trailing
\* text, or nothing) by that letter and leaves every other answer as it is:
\* "A. 20" becomes "A", "B" stays "B", "E. foo" stays "E. foo".
C20_OptionLetterExtracted ==
    Fixed =>
        /\ DOMAIN answer_key = DOMAIN call.original
        /\ \A q \in DOMAIN call.original :
              LET original == call.original[q]
              IN  /\ (original # <<>> /\ original[1] \in {"A", "B", "C", "D"}) =>
                        answer_key[q] = <<original[1]>>
                  /\ (original = <<>> \/ original[1] \notin {"A", "B", "C", "D"}) =>
                        answer_key[q] = original
                  /\ original = <<"A", ".", " ", "2", "0">> => answer_key[q] = <<"A">>
                  /\ original = <<"B">> => answer_key[q] = <<"B">>
                  /\ original = <<"E", ".", " ", "f", "o", "o">> => answer_key[q] = original

\* C20 happens: "A 20" and "E. foo" are stored; the first becomes "A", the
\* second stays
C20_Witness ==
    /\ Fixed
    /\ call.original = <<<<"A", " ", "2", "0">>, <<"E", ".", " ", "f", "o", "o">>>>
    /\ answer_key = <<<<"A">>, <<"E", ".", " ", "f", "o", "o">>>>
    /\ ret.updated_count = 1

(***************************************************************************)
(* Properties of the test sessions (checked under SpecDb).                 *)
(***************************************************************************)
Sessions == 1..Len(db.test_sessions)

\* the CandidateAnswer rows and the Result rows of session s
AnswersOf(s) == SelectSeq(db.candidate_answers, LAMBDA a : a.session_id = s)
ResultsOf(s) == SelectSeq(db.results, LAMBDA row : row.session_id = s)

\* the submit_test requests for session s that have returned a result
Succeeded(s) ==
    {r \in DOMAIN requests :
        /\ requests[r].op = "submit_test"
        /\ requests[r].pc = "done"
        /\ requests[r].status = 200
        /\ requests[r].session_id = s}

\* C26: a submit_test for a session that is completed is refused with an
\* error and leaves every row as it is; a session that is completed stays
\* completed whatever is done; and no session has two submit_test requests
\* that return a result.
C26_SubmittedAtMostOnce ==
    [][/\ \A r \in DOMAIN requests :
              (/\ requests[r].pc = "idle"
               /\ requests'[r].op = "submit_test"
               /\ requests'[r].session_id \in Sessions
               /\ db.test_sessions[requests'[r].session_id].is_completed) =>
                  /\ requests'[r].pc = "done"
                  /\ requests'[r].status = 400
                  /\ db' = db
       /\ \A s \in Sessions :
              db.test_sessions[s].is_completed =>
                  /\ s <= Len(db'.test_sessions)
                  /\ db'.test_sessions[s].is_completed
       /\ \A s \in Sessions : Cardinality(Succeeded(s))' <= 1]_vars

\* C26 happens: a submit_test for a completed session has been refused
C26_Witness ==
    \E r \in DOMAIN requests :
        /\ requests[r].op = "submit_test"
        /\ requests[r].status = 400
        /\ db.test_sessions[requests[r].session_id].is_completed
        /\ Len(ResultsOf(requests[r].session_id)) = 1

\* C27: however the submit_test requests for a session interleave, the
\* session has at most one Result row, at most one of the requests returns a
\* result, and the CandidateAnswer rows of the session are the rows of that
\* one request.
C27_OneSubmissionCommitted ==
    \A s \in Sessions :
        /\ Len(ResultsOf(s)) <= 1
        /\ Cardinality(Succeeded(s)) <= 1
        /\ AnswersOf(s) # <<>> =>
              \E r \in Succeeded(s) :
                  AnswersOf(s) =
                      GradedSubmission(s, requests[r].answers, QuestionRows).candidate_answers

\* C27 happens: two submit_test requests for one session have both passed
\* the is_completed check; one has committed and the other has failed
C27_Witness ==
    \E r1, r2 \in DOMAIN requests :
        /\ requests[r1].op = "submit_test" /\ requests[r2].op = "submit_test"
        /\ requests[r1].session_id = requests[r2].session_id
        /\ requests[r1].pc = "done" /\ requests[r1].status = 200
        /\ requests[r2].pc = "done" /\ requests[r2].status = 500
        /\ requests[r1].answers # requests[r2].answers
        /\ AnswersOf(requests[r1].session_id) # <<>>

\* C28: the candidate has at most one incomplete session for the question
\* set, however the start_test_session requests interleave.
C28_OneIncompleteSession ==
    Cardinality({s \in Sessions : ~db.test_sessions[s].is_completed}) <= 1

\* C29: every incomplete session refers to a question set that exists,
\* however start_test_session and delete_question_set interleave.
C29_IncompleteSessionHasQuestionSet ==
    \A s \in Sessions :
        ~db.test_sessions[s].is_completed =>
            db.test_sessions[s].question_set_id \in db.question_sets

\* C30: after a submit_test that returned a result, every CandidateAnswer
\* row of the session has its is_correct and its similarity_score set.
C30_EveryAnswerGraded ==
    \A s \in Sessions :
        Succeeded(s) # {} =>
            \A i \in 1..Len(AnswersOf(s)) :
                /\ AnswersOf(s)[i].is_correct # <<>>
                /\ AnswersOf(s)[i].similarity_score # <<>>

====
